---------------------------- MODULE Spec2Model ----------------------------
(***************************************************************************)
(* Streaming speech client of the desktop shell (src-tauri/src/commands).  *)
(*                                                                         *)
(* The module models the synthesis path, tts.rs: the session-protocol      *)
(* frame codec (build_full_client_frame, parse_frame), the text chunker    *)
(* (split_tts_text), the event wait (wait_for_event) and the session       *)
(* sequencing of tts_speak_stream over a duplex socket; and the            *)
(* recognition path, stt.rs and its test program stt_ws_test.rs: the       *)
(* simple-protocol frames (build_full_client_request,                      *)
(* build_audio_only_request, parse_server_payload), the reading of the     *)
(* JSON responses and the exchange of stt_transcribe.                      *)
(*                                                                         *)
(* Bytes are naturals 0..255, byte strings are sequences of bytes, text is *)
(* a sequence of Unicode scalar values (Rust char).  Source offsets are    *)
(* 0-based; At and Slice keep them.                                        *)
(***************************************************************************)
EXTENDS Integers, Sequences, FiniteSets, TLC

\* ------------------------------------------------------------------------
\* Program constants (tts.rs:16-40)
\* ------------------------------------------------------------------------
PROTOCOL_VERSION == 1
HEADER_SIZE == 1
MSG_TYPE_FULL_CLIENT == 1
MSG_TYPE_AUDIO_ONLY_RESPONSE == 11
MSG_TYPE_ERROR == 15
FLAG_WITH_EVENT == 4
SERIALIZATION_JSON == 1
COMPRESSION_NONE == 0

EVENT_START_CONNECTION == 1
EVENT_FINISH_CONNECTION == 2
EVENT_CONNECTION_STARTED == 50
EVENT_CONNECTION_FINISHED == 52
EVENT_START_SESSION == 100
EVENT_FINISH_SESSION == 102
EVENT_SESSION_STARTED == 150
EVENT_SESSION_FINISHED == 152
EVENT_TASK_REQUEST == 200
EVENT_TTS_RESPONSE == 352

TTS_CHUNK_MAX == 60
TTS_CHUNK_MIN == 12

\* ------------------------------------------------------------------------
\* Byte-level helpers
\* ------------------------------------------------------------------------
\* Lengths read from the wire are u32 widened to usize.  Every buffer of the
\* model is far shorter than UsizeCap, so a declared length of UsizeCap or
\* more is kept as UsizeCap: it overruns every buffer exactly as the real
\* value does, and offset + length stays inside TLC's 32-bit integers.
UsizeCap == 1073741824

\* data[i] with the source's 0-based index
At(data, i) == data[i + 1]

\* data[from..to] (to exclusive) with the source's 0-based offsets
Slice(data, from, to) == SubSeq(data, from + 1, to)

\* x & 0x0f and x >> 4 on a byte
LowNibble(b) == b % 16
HighNibble(b) == b \div 16

\* (hi << 4) | lo for two nibbles
PackNibbles(hi, lo) == hi * 16 + lo

\* flags & mask != 0 for a one-bit mask
HasFlag(flags, mask) == (flags \div mask) % 2 = 1

\* i32::to_be_bytes (two's complement, big-endian)
I32ToBeBytes(n) ==
    << (n \div 16777216) % 256, (n \div 65536) % 256, (n \div 256) % 256, n % 256 >>

\* (len as u32).to_be_bytes() for a length below 2^31
U32ToBeBytes(n) ==
    << (n \div 16777216) % 256, (n \div 65536) % 256, (n \div 256) % 256, n % 256 >>

\* i32::from_be_bytes([data[offset], .., data[offset + 3]])
I32FromBeBytes(data, offset) ==
    LET b0 == At(data, offset)
        hi == IF b0 >= 128 THEN b0 - 256 ELSE b0
    IN  hi * 16777216 + At(data, offset + 1) * 65536
          + At(data, offset + 2) * 256 + At(data, offset + 3)

\* u32::from_be_bytes([data[offset], .., data[offset + 3]]) as usize
U32FromBeBytes(data, offset) ==
    IF At(data, offset) >= 64
    THEN UsizeCap
    ELSE At(data, offset) * 16777216 + At(data, offset + 1) * 65536
           + At(data, offset + 2) * 256 + At(data, offset + 3)

\* ------------------------------------------------------------------------
\* build_full_client_frame (tts.rs:115-132)
\* session_id is [some |-> FALSE] or [some |-> TRUE, v |-> bytes]
\* ------------------------------------------------------------------------
None == [some |-> FALSE]
Some(x) == [some |-> TRUE, v |-> x]

\* Faulty variant of build_full_client_frame: without session id an id
\* length of 0 is written.
build_full_client_frame_empty_id(event, session_id, payload) ==
    LET head == << PackNibbles(PROTOCOL_VERSION, HEADER_SIZE),
                   PackNibbles(MSG_TYPE_FULL_CLIENT, FLAG_WITH_EVENT),
                   PackNibbles(SERIALIZATION_JSON, COMPRESSION_NONE),
                   0 >>
        ev == I32ToBeBytes(event)
        id == IF session_id.some
              THEN U32ToBeBytes(Len(session_id.v)) \o session_id.v
              ELSE U32ToBeBytes(0)
    IN  head \o ev \o id \o U32ToBeBytes(Len(payload)) \o payload

build_full_client_frame(event, session_id, payload) ==
    LET head == << PackNibbles(PROTOCOL_VERSION, HEADER_SIZE),
                   PackNibbles(MSG_TYPE_FULL_CLIENT, FLAG_WITH_EVENT),
                   PackNibbles(SERIALIZATION_JSON, COMPRESSION_NONE),
                   0 >>
        ev == I32ToBeBytes(event)
        id == IF session_id.some
              THEN U32ToBeBytes(Len(session_id.v)) \o session_id.v
              ELSE << >>
    IN  head \o ev \o id \o U32ToBeBytes(Len(payload)) \o payload

\* ------------------------------------------------------------------------
\* parse_frame (tts.rs:134-217)
\* Result<ParsedFrame, String>: [ok |-> TRUE, frame |-> ...] or
\* [ok |-> FALSE, err |-> message]
\* ------------------------------------------------------------------------
Ok(x) == [ok |-> TRUE, frame |-> x]
Err(m) == [ok |-> FALSE, err |-> m]

ParsedFrame(message_type, flags, serialization, event, payload) ==
    [message_type |-> message_type, flags |-> flags,
     serialization |-> serialization, event |-> event, payload |-> payload]

\* Faulty variant of ParseBody: a payload whose declared length overruns
\* the buffer is an error.
ParseBody_strict(data, message_type, flags, serialization, event, offset0) ==
    LET hasId == offset0 + 4 <= Len(data)
        id_len == IF hasId THEN U32FromBeBytes(data, offset0) ELSE 0
        offset1 == IF hasId THEN offset0 + 4 ELSE offset0
        idBad == hasId /\ id_len > 0 /\ offset1 + id_len > Len(data)
        offset2 == IF hasId /\ id_len > 0 THEN offset1 + id_len ELSE offset1
        hasLen == offset2 + 4 <= Len(data)
        payload_len == IF hasLen THEN U32FromBeBytes(data, offset2) ELSE 0
        offset3 == offset2 + 4
    IN  IF idBad
        THEN Err("Invalid id length")
        ELSE IF hasLen /\ offset3 + payload_len > Len(data)
        THEN Err("Invalid payload length")
        ELSE Ok(ParsedFrame(message_type, flags, serialization, event,
                            IF hasLen
                            THEN Slice(data, offset3, offset3 + payload_len)
                            ELSE << >>))

\* Faulty variant of ParseBody: the id is not skipped.
ParseBody_keeps_id(data, message_type, flags, serialization, event, offset0) ==
    LET hasId == offset0 + 4 <= Len(data)
        id_len == IF hasId THEN U32FromBeBytes(data, offset0) ELSE 0
        offset1 == IF hasId THEN offset0 + 4 ELSE offset0
        idBad == hasId /\ id_len > 0 /\ offset1 + id_len > Len(data)
        hasLen == offset1 + 4 <= Len(data)
        payload_len == IF hasLen THEN U32FromBeBytes(data, offset1) ELSE 0
        offset3 == offset1 + 4
        payload == IF ~hasLen THEN << >>
                   ELSE IF offset3 + payload_len <= Len(data)
                        THEN Slice(data, offset3, offset3 + payload_len)
                   ELSE IF offset3 < Len(data)
                        THEN Slice(data, offset3, Len(data))
                   ELSE << >>
    IN  IF idBad
        THEN Err("Invalid id length")
        ELSE Ok(ParsedFrame(message_type, flags, serialization, event, payload))

\* tts.rs:178-216: optional id, then the length-prefixed payload
ParseBody(data, message_type, flags, serialization, event, offset0) ==
    LET hasId == offset0 + 4 <= Len(data)
        id_len == IF hasId THEN U32FromBeBytes(data, offset0) ELSE 0
        offset1 == IF hasId THEN offset0 + 4 ELSE offset0
        idBad == hasId /\ id_len > 0 /\ offset1 + id_len > Len(data)
        offset2 == IF hasId /\ id_len > 0 THEN offset1 + id_len ELSE offset1
        hasLen == offset2 + 4 <= Len(data)
        payload_len == IF hasLen THEN U32FromBeBytes(data, offset2) ELSE 0
        offset3 == offset2 + 4
        payload == IF ~hasLen THEN << >>
                   ELSE IF offset3 + payload_len <= Len(data)
                        THEN Slice(data, offset3, offset3 + payload_len)
                   ELSE IF offset3 < Len(data)
                        THEN Slice(data, offset3, Len(data))
                   ELSE << >>
    IN  IF idBad
        THEN Err("Invalid id length")
        ELSE Ok(ParsedFrame(message_type, flags, serialization, event, payload))

\* Faulty variant of parse_frame: an error frame is read like any other
\* frame, with an id and a length-prefixed payload.
parse_frame_error_as_body(data) ==
    IF Len(data) < 4 THEN Err("Frame too short")
    ELSE
    LET header_size == LowNibble(At(data, 0)) * 4
        message_type == HighNibble(At(data, 1))
        flags == LowNibble(At(data, 1))
        serialization == HighNibble(At(data, 2))
        withEvent == HasFlag(flags, FLAG_WITH_EVENT)
        offset == IF withEvent THEN header_size + 4 ELSE header_size
    IN  IF header_size > Len(data) THEN Err("Invalid header size")
        ELSE IF withEvent /\ header_size + 4 > Len(data)
             THEN Err("Missing event field")
        ELSE
        LET event == IF withEvent
                     THEN Some(I32FromBeBytes(data, header_size))
                     ELSE None
        IN  ParseBody(data, message_type, flags, serialization, event, offset)

parse_frame(data) ==
    IF Len(data) < 4 THEN Err("Frame too short")
    ELSE
    LET header_size == LowNibble(At(data, 0)) * 4
        message_type == HighNibble(At(data, 1))
        flags == LowNibble(At(data, 1))
        serialization == HighNibble(At(data, 2))
        withEvent == HasFlag(flags, FLAG_WITH_EVENT)
        offset == IF withEvent THEN header_size + 4 ELSE header_size
    IN  IF header_size > Len(data) THEN Err("Invalid header size")
        ELSE IF withEvent /\ header_size + 4 > Len(data)
             THEN Err("Missing event field")
        ELSE
        LET event == IF withEvent
                     THEN Some(I32FromBeBytes(data, header_size))
                     ELSE None
        IN  IF message_type = MSG_TYPE_ERROR
            THEN IF offset + 4 > Len(data)
                 THEN Err("Missing error code")
                 ELSE Ok(ParsedFrame(message_type, flags, serialization, event,
                                     Slice(data, offset + 4, Len(data))))
            ELSE ParseBody(data, message_type, flags, serialization, event, offset)

\* ------------------------------------------------------------------------
\* Text: split_tts_text (tts.rs:219-263)
\* ------------------------------------------------------------------------
\* char::is_whitespace, the test str::trim applies (Unicode White_Space)
IsWhitespace(ch) ==
    \/ ch \in 9..13
    \/ ch \in {32, 133, 160, 5760, 8232, 8233, 8239, 8287, 12288}
    \/ ch \in 8192..8202

\* str::trim_start: s from its first character that is not whitespace
TrimStart(s) ==
    LET kept == { i \in 1..Len(s) : ~IsWhitespace(s[i]) }
    IN  IF kept = {} THEN << >>
        ELSE SubSeq(s, CHOOSE i \in kept : \A k \in kept : i <= k, Len(s))

\* str::trim_end: s up to its last character that is not whitespace
TrimEnd(s) ==
    LET kept == { i \in 1..Len(s) : ~IsWhitespace(s[i]) }
    IN  IF kept = {} THEN << >>
        ELSE SubSeq(s, 1, CHOOSE i \in kept : \A k \in kept : i >= k)

\* str::trim
Trim(s) == TrimEnd(TrimStart(s))

\* tts.rs:219-224; the six full-width marks, then . ! ? ; , and newline
is_boundary_char(ch) ==
    ch \in {12290, 65281, 65311, 65307, 65292, 12289, 46, 33, 63, 59, 44, 10}

\* the loop's locals: the chunks pushed, the chunk being accumulated and the
\* count of its characters (tts.rs:232-234)
ScanLocals(chunks, current, current_len) ==
    [chunks |-> chunks, current |-> current, current_len |-> current_len]

\* Faulty variant of SplitStep: the chunk is pushed as accumulated, without
\* trim and without the test for an empty chunk.
SplitStep_untrimmed(st, ch, max_len, min_len) ==
    LET pushed == Append(st.current, ch)
        len1 == st.current_len + 1
        should_split == \/ len1 >= max_len
                        \/ (is_boundary_char(ch) /\ len1 >= min_len)
    IN  IF should_split
        THEN ScanLocals(Append(st.chunks, pushed), << >>, 0)
        ELSE ScanLocals(st.chunks, pushed, len1)

\* Faulty variant of SplitStep: a boundary character that triggers a split
\* is not kept.
SplitStep_drop_boundary(st, ch, max_len, min_len) ==
    LET pushed == Append(st.current, ch)
        len1 == st.current_len + 1
        should_split == \/ len1 >= max_len
                        \/ (is_boundary_char(ch) /\ len1 >= min_len)
        chunk == Trim(IF is_boundary_char(ch) THEN st.current ELSE pushed)
    IN  IF should_split
        THEN ScanLocals(IF chunk # << >> THEN Append(st.chunks, chunk)
                        ELSE st.chunks, << >>, 0)
        ELSE ScanLocals(st.chunks, pushed, len1)

\* Faulty variant of SplitStep: the forced split fires one character late.
SplitStep_late_max(st, ch, max_len, min_len) ==
    LET pushed == Append(st.current, ch)
        len1 == st.current_len + 1
        should_split == \/ len1 > max_len
                        \/ (is_boundary_char(ch) /\ len1 >= min_len)
        chunk == Trim(pushed)
    IN  IF should_split
        THEN ScanLocals(IF chunk # << >> THEN Append(st.chunks, chunk)
                        ELSE st.chunks, << >>, 0)
        ELSE ScanLocals(st.chunks, pushed, len1)

\* tts.rs:237-250: one pass of the loop body, on the character ch with the
\* locals st
SplitStep(st, ch, max_len, min_len) ==
    LET pushed == Append(st.current, ch)
        len1 == st.current_len + 1
        should_split == \/ len1 >= max_len
                        \/ (is_boundary_char(ch) /\ len1 >= min_len)
        chunk == Trim(pushed)
    IN  IF should_split
        THEN ScanLocals(IF chunk # << >> THEN Append(st.chunks, chunk)
                        ELSE st.chunks, << >>, 0)
        ELSE ScanLocals(st.chunks, pushed, len1)

\* tts.rs:236-251: the loop over the characters lo..hi of trimmed, in order,
\* from the locals st; the range is walked by halves, first lo..mid and then
\* mid+1..hi from the locals the first half leaves.  current_len is a usize;
\* the test of it has the locals of the first half evaluated before the
\* second half is entered, which keeps the depth of the evaluation
\* logarithmic in the length of the text.
RECURSIVE SplitScan(_, _, _, _, _, _)
SplitScan(trimmed, lo, hi, st, max_len, min_len) ==
    IF st.current_len < 0 \/ lo > hi THEN st
    ELSE IF lo = hi THEN SplitStep(st, trimmed[lo], max_len, min_len)
    ELSE LET mid == (lo + hi) \div 2
         IN  SplitScan(trimmed, mid + 1, hi,
                       SplitScan(trimmed, lo, mid, st, max_len, min_len),
                       max_len, min_len)

\* tts.rs:226-263 with the two chunk limits as parameters
SplitText(text, max_len, min_len) ==
    LET trimmed == Trim(text)
    IN  IF trimmed = << >> THEN << >>
        ELSE
        LET scan == SplitScan(trimmed, 1, Len(trimmed),
                             ScanLocals(<< >>, << >>, 0), max_len, min_len)
            rest == Trim(scan.current)
            chunks == IF rest # << >> THEN Append(scan.chunks, rest)
                      ELSE scan.chunks
        IN  IF chunks = << >> THEN << trimmed >> ELSE chunks

split_tts_text(text) == SplitText(text, TTS_CHUNK_MAX, TTS_CHUNK_MIN)

\* ------------------------------------------------------------------------
\* Text to bytes and back: String::as_bytes, serde_json::to_vec,
\* String::from_utf8_lossy
\* ------------------------------------------------------------------------
\* UTF-8 encoding of one scalar value
Utf8Char(c) ==
    IF c < 128 THEN << c >>
    ELSE IF c < 2048 THEN << 192 + (c \div 64), 128 + (c % 64) >>
    ELSE IF c < 65536
         THEN << 224 + (c \div 4096), 128 + ((c \div 64) % 64), 128 + (c % 64) >>
    ELSE << 240 + (c \div 262144), 128 + ((c \div 4096) % 64),
            128 + ((c \div 64) % 64), 128 + (c % 64) >>

RECURSIVE Utf8(_)
Utf8(s) == IF s = << >> THEN << >> ELSE Utf8Char(Head(s)) \o Utf8(Tail(s))

HexDigit(n) == IF n < 10 THEN 48 + n ELSE 87 + n

\* serde_json string escaping of one scalar value
JsonChar(c) ==
    IF c = 34 THEN << 92, 34 >>
    ELSE IF c = 92 THEN << 92, 92 >>
    ELSE IF c = 8 THEN << 92, 98 >>
    ELSE IF c = 12 THEN << 92, 102 >>
    ELSE IF c = 10 THEN << 92, 110 >>
    ELSE IF c = 13 THEN << 92, 114 >>
    ELSE IF c = 9 THEN << 92, 116 >>
    ELSE IF c < 32
         THEN << 92, 117, 48, 48, HexDigit(c \div 16), HexDigit(c % 16) >>
    ELSE Utf8Char(c)

RECURSIVE JsonChars(_)
JsonChars(s) ==
    IF s = << >> THEN << >> ELSE JsonChar(Head(s)) \o JsonChars(Tail(s))

\* a JSON string literal
JsonString(s) == << 34 >> \o JsonChars(s) \o << 34 >>

\* tts.rs:508-516: {"event":200,"namespace":"BidirectionalTTS",
\*                  "req_params":{"text":<chunk>}}
TaskPayload(chunk) ==
    << 123, 34, 101, 118, 101, 110, 116, 34, 58, 50, 48, 48, 44, 34, 110, 97,
       109, 101, 115, 112, 97, 99, 101, 34, 58, 34, 66, 105, 100, 105, 114,
       101, 99, 116, 105, 111, 110, 97, 108, 84, 84, 83, 34, 44, 34, 114, 101,
       113, 95, 112, 97, 114, 97, 109, 115, 34, 58, 123, 34, 116, 101, 120,
       116, 34, 58 >>
    \o JsonString(chunk) \o << 125, 125 >>

\* tts.rs:480-493, keys in serde_json's sorted order:
\* {"event":100,"namespace":"BidirectionalTTS","req_params":{"audio_params":
\*  {"format":"mp3","sample_rate":24000},"speaker":<voice>},
\*  "user":{"uid":"reason-desktop"}}
SessionPayload(voice) ==
    << 123, 34, 101, 118, 101, 110, 116, 34, 58, 49, 48, 48, 44, 34, 110, 97,
       109, 101, 115, 112, 97, 99, 101, 34, 58, 34, 66, 105, 100, 105, 114,
       101, 99, 116, 105, 111, 110, 97, 108, 84, 84, 83, 34, 44, 34, 114, 101,
       113, 95, 112, 97, 114, 97, 109, 115, 34, 58, 123, 34, 97, 117, 100, 105,
       111, 95, 112, 97, 114, 97, 109, 115, 34, 58, 123, 34, 102, 111, 114,
       109, 97, 116, 34, 58, 34, 109, 112, 51, 34, 44, 34, 115, 97, 109, 112,
       108, 101, 95, 114, 97, 116, 101, 34, 58, 50, 52, 48, 48, 48, 125, 44,
       34, 115, 112, 101, 97, 107, 101, 114, 34, 58 >>
    \o JsonString(voice)
    \o << 125, 44, 34, 117, 115, 101, 114, 34, 58, 123, 34, 117, 105, 100, 34,
          58, 34, 114, 101, 97, 115, 111, 110, 45, 100, 101, 115, 107, 116,
          111, 112, 34, 125, 125 >>

\* b"{}"
EmptyJson == << 123, 125 >>

\* the byte at 0-based index i, or 0 past the end (safe_get of the decoder)
SafeGet(data, i) == IF i < Len(data) THEN At(data, i) ELSE 0

IsCont(b) == b \in 128..191

\* Number of bytes of the well-formed UTF-8 sequence that starts at i, or 0
\* when the bytes at i do not start one; BadLen is then the length of the
\* maximal ill-formed prefix, which becomes one replacement character.
Utf8SeqLen(data, i) ==
    LET b0 == At(data, i)
        b1 == SafeGet(data, i + 1)
        b2 == SafeGet(data, i + 2)
        b3 == SafeGet(data, i + 3)
        second3 == \/ (b0 = 224 /\ b1 \in 160..191)
                   \/ (b0 \in 225..236 /\ b1 \in 128..191)
                   \/ (b0 = 237 /\ b1 \in 128..159)
                   \/ (b0 \in 238..239 /\ b1 \in 128..191)
        second4 == \/ (b0 = 240 /\ b1 \in 144..191)
                   \/ (b0 \in 241..243 /\ b1 \in 128..191)
                   \/ (b0 = 244 /\ b1 \in 128..143)
    IN  IF b0 < 128 THEN [ok |-> TRUE, n |-> 1]
        ELSE IF b0 \in 194..223
             THEN IF IsCont(b1) THEN [ok |-> TRUE, n |-> 2]
                  ELSE [ok |-> FALSE, n |-> 1]
        ELSE IF b0 \in 224..239
             THEN IF ~second3 THEN [ok |-> FALSE, n |-> 1]
                  ELSE IF ~IsCont(b2) THEN [ok |-> FALSE, n |-> 2]
                  ELSE [ok |-> TRUE, n |-> 3]
        ELSE IF b0 \in 240..244
             THEN IF ~second4 THEN [ok |-> FALSE, n |-> 1]
                  ELSE IF ~IsCont(b2) THEN [ok |-> FALSE, n |-> 2]
                  ELSE IF ~IsCont(b3) THEN [ok |-> FALSE, n |-> 3]
                  ELSE [ok |-> TRUE, n |-> 4]
        ELSE [ok |-> FALSE, n |-> 1]

\* the scalar value of the well-formed n-byte sequence at i
Utf8Scalar(data, i, n) ==
    IF n = 1 THEN At(data, i)
    ELSE IF n = 2 THEN (At(data, i) - 192) * 64 + (At(data, i + 1) - 128)
    ELSE IF n = 3
         THEN (At(data, i) - 224) * 4096 + (At(data, i + 1) - 128) * 64
                + (At(data, i + 2) - 128)
    ELSE (At(data, i) - 240) * 262144 + (At(data, i + 1) - 128) * 4096
           + (At(data, i + 2) - 128) * 64 + (At(data, i + 3) - 128)

\* String::from_utf8_lossy, from byte i on; 65533 is U+FFFD, the
\* replacement character
RECURSIVE Utf8LossyFrom(_, _)
Utf8LossyFrom(data, i) ==
    IF i >= Len(data) THEN << >>
    ELSE LET r == Utf8SeqLen(data, i)
         IN  << IF r.ok THEN Utf8Scalar(data, i, r.n)
                ELSE 65533 >>
             \o Utf8LossyFrom(data, i + r.n)

from_utf8_lossy(data) == Utf8LossyFrom(data, 0)

\* ------------------------------------------------------------------------
\* Inputs of a call and of its socket
\* ------------------------------------------------------------------------
\* "Hello, world. Bye": two chunks, split at the full stop (13th character)
TextTwoChunks ==
    << 72, 101, 108, 108, 111, 44, 32, 119, 111, 114, 108, 100, 46, 32, 66,
       121, 101 >>

\* the texts given to a call: empty, whitespace only, "Hi", two chunks
Texts == { << >>, << 32, 10 >>, << 72, 105 >>, TextTwoChunks }

\* Uuid::new_v4().to_string(): 36 ASCII bytes
SessionIds ==
    { << 52, 100, 50, 57, 49, 48, 56, 97, 45, 48, 53, 48, 53, 45, 52, 101,
         101, 98, 45, 56, 49, 100, 52, 45, 57, 50, 55, 51, 97, 57, 50, 55, 99,
         98, 101, 102 >>,
      << 48, 98, 56, 101, 54, 99, 49, 101, 45, 55, 102, 51, 97, 45, 52, 99,
         53, 53, 45, 57, 100, 48, 101, 45, 50, 97, 54, 102, 49, 99, 51, 98, 55,
         100, 57, 48 >> }

\* TtsConfig::default().voice_type (config.rs:19)
DefaultVoiceType ==
    << 122, 104, 95, 102, 101, 109, 97, 108, 101, 95, 116, 105, 97, 110, 109,
       101, 105, 120, 105, 97, 111, 121, 117, 97, 110, 95, 109, 111, 111, 110,
       95, 98, 105, 103, 116, 116, 115 >>

\* VolcengineConfig (config.rs:41-52); strings are texts; stt is
\* SttConfig::default() (config.rs:32-38)
VolcengineConfig(app_id, access_token, legacy_resource_id, tts_resource_id) ==
    [app_id |-> app_id, access_token |-> access_token,
     legacy_resource_id |-> legacy_resource_id,
     stt |-> [resource_id |-> << >>],
     tts |-> [resource_id |-> tts_resource_id, voice_type |-> DefaultVoiceType]]

\* the configuration c with stt.resource_id set
WithStt(c, stt_resource_id) == [c EXCEPT !.stt.resource_id = stt_resource_id]

AppId == << 97, 112, 112 >>
Token == << 116, 111, 107 >>
TtsResource == << 116, 116, 115 >>
LegacyResource == << 111, 108, 100 >>

\* an error string: a fixed text, and the formatted argument after it
Msg(text) == [text |-> text, arg |-> << >>]
MsgWith(text, arg) == [text |-> text, arg |-> arg]

\* what get_volcengine_config does: it returns an error with its message
\* or a configuration (config.rs:92-102, 122-125), or it panics
ConfigError(m) ==
    [ok |-> FALSE, panics |-> FALSE, err |-> m,
     v |-> VolcengineConfig(<< >>, << >>, None, << >>)]
ConfigOk(c) == [ok |-> TRUE, v |-> c]

\* there is no home directory: get_config_path panics (config.rs:84-89) and
\* the command does not return
ConfigNoHome ==
    [ok |-> FALSE, panics |-> TRUE, err |-> Msg("Cannot find home directory"),
     v |-> VolcengineConfig(<< >>, << >>, None, << >>)]

\* config.json does not exist (config.rs:95-97)
ConfigNotFound == ConfigError(Msg("Config file not found"))
\* config.json exists and cannot be read (config.rs:99)
ConfigReadFailed == ConfigError(Msg("Failed to read config"))
\* config.json is not JSON, or lacks a required field such as the tts
\* section of volcengine (config.rs:101)
ConfigParseFailed == ConfigError(Msg("Failed to parse config"))
\* the ways get_volcengine_config fails
ConfigErrors ==
    { ConfigNotFound, ConfigReadFailed, ConfigParseFailed, ConfigNoHome }

\* HeaderValue::from_str accepts the text (tts.rs:441-461): every byte is
\* a tab, or is at least 32 and not 127; the bytes of a character above
\* 127 are all above 127
ValidHeaderValue(s) ==
    \A i \in 1..Len(s) : s[i] = 9 \/ (s[i] >= 32 /\ s[i] # 127)

\* "a\nb", "t\x7Fk", "t\rs", "o\0d": credentials a header cannot hold
AppIdLineFeed == << 97, 10, 98 >>
TokenDel == << 116, 127, 107 >>
ResourceCr == << 116, 13, 115 >>
LegacyNul == << 111, 0, 100 >>
\* "t\tk": a token with a tab, which a header can hold
TokenTab == << 116, 9, 107 >>

GoodConfigs ==
    { ConfigOk(VolcengineConfig(AppId, Token, None, TtsResource)),
      ConfigOk(VolcengineConfig(AppId, Token, Some(LegacyResource), << >>)) }

BadConfigs ==
    ConfigErrors \cup
    { ConfigOk(VolcengineConfig(AppIdLineFeed, Token, None, TtsResource)),
      ConfigOk(VolcengineConfig(AppId, TokenDel, None, TtsResource)),
      ConfigOk(VolcengineConfig(AppId, Token, None, ResourceCr)),
      ConfigOk(VolcengineConfig(AppId, Token, Some(LegacyNul), << >>)),
      ConfigOk(VolcengineConfig(<< >>, << >>, None, << >>)),
      ConfigOk(VolcengineConfig(<< >>, Token, None, TtsResource)),
      ConfigOk(VolcengineConfig(AppId, << >>, Some(LegacyResource), << >>)),
      ConfigOk(VolcengineConfig(AppId, Token, None, << >>)),
      ConfigOk(VolcengineConfig(AppId, Token, Some(<< >>), << >>)) }

\* a configuration with a legacy resource id and the resource ids of both
\* paths
ConfigBoth ==
    ConfigOk(WithStt(VolcengineConfig(AppId, Token, Some(LegacyResource),
                                      TtsResource),
                     << 115, 116, 116 >>))

\* the voice_type argument: None, or Some("ok")
VoiceTypes == { None, Some(<< 111, 107 >>) }

\* One item of the inbound stream, as ws_read.next().await yields it:
\* kind "Binary"/"Text" carry data; "Close"; "Other" (Ping, Pong, Frame);
\* "Error" is Some(Err(e)); "End" is None.
Item(kind, data) == [kind |-> kind, data |-> data]

\* inbound binary messages; server frames carry a 1-byte id "c" or "s"
Frame50 == << 17, 148, 16, 0,  0, 0, 0, 50,   0, 0, 0, 1, 99,  0, 0, 0, 2, 123, 125 >>
Frame150 == << 17, 148, 16, 0,  0, 0, 0, 150,  0, 0, 0, 1, 115, 0, 0, 0, 2, 123, 125 >>
Frame152 == << 17, 148, 16, 0,  0, 0, 0, 152,  0, 0, 0, 1, 115, 0, 0, 0, 2, 123, 125 >>
Frame52 == << 17, 148, 16, 0,  0, 0, 0, 52,   0, 0, 0, 1, 99,  0, 0, 0, 2, 123, 125 >>
\* event 350 (sentence start) with a JSON payload
Frame350 == << 17, 148, 16, 0,  0, 0, 1, 94,   0, 0, 0, 1, 115, 0, 0, 0, 2, 123, 125 >>
\* event 352 on a full server response, payload 01 02
Audio352 == << 17, 148, 0, 0,   0, 0, 1, 96,   0, 0, 0, 1, 115, 0, 0, 0, 2, 1, 2 >>
\* event 352 with an empty payload
Audio352Empty == << 17, 148, 0, 0,  0, 0, 1, 96,  0, 0, 0, 1, 115, 0, 0, 0, 0 >>
\* audio-only response without event field, payload 03
AudioOnly == << 17, 176, 0, 0,  0, 0, 0, 0,  0, 0, 0, 1, 3 >>
\* audio-only response without event field, empty payload
AudioOnlyEmpty == << 17, 176, 0, 0,  0, 0, 0, 0,  0, 0, 0, 0 >>
\* audio-only response that also carries event 352, payload 04 05 06
AudioOnly352 == << 17, 180, 0, 0,  0, 0, 1, 96,  0, 0, 0, 1, 115, 0, 0, 0, 3, 4, 5, 6 >>
\* audio-only response that carries event 152, payload 07
AudioOnly152 == << 17, 180, 0, 0,  0, 0, 0, 152,  0, 0, 0, 1, 115, 0, 0, 0, 1, 7 >>
\* error frame without event: error code, then the text "no"
ErrorFrame == << 17, 240, 16, 0,  2, 174, 165, 64,  110, 111 >>
\* error frame carrying event 50: error code, then "x", an invalid byte, "y"
ErrorFrame50 == << 17, 244, 16, 0,  0, 0, 0, 50,  2, 174, 165, 64,  120, 255, 121 >>
\* error frame cut before the end of its error code
ErrorFrameShort == << 17, 240, 16, 0,  2, 174 >>
\* three bytes: not a frame
ShortFrame == << 17, 148, 16 >>
\* a frame whose id length overruns the buffer
BadIdFrame == << 17, 148, 16, 0,  0, 0, 0, 150,  0, 0, 0, 9, 115 >>

BinaryFrames ==
    { Frame50, Frame150, Frame152, Frame52, Frame350, Audio352, Audio352Empty,
      AudioOnly, AudioOnlyEmpty, AudioOnly352, AudioOnly152, ErrorFrame,
      ErrorFrame50, ErrorFrameShort, ShortFrame, BadIdFrame }

EndItem == Item("End", << >>)

Items ==
    { Item("Binary", f) : f \in BinaryFrames }
      \cup { Item("Text", << 104, 105 >>), Item("Close", << >>),
             Item("Other", << >>), Item("Error", << >>), EndItem }

\* the inbound stream yields at most MaxInbound items before it ends
MaxInbound == 5

\* ------------------------------------------------------------------------
\* Results and window events
\* ------------------------------------------------------------------------
Running == [state |-> "running", message |-> Msg("")]
Success == [state |-> "ok", message |-> Msg("")]
Failure(m) == [state |-> "err", message |-> m]

\* window.emit(name, payload)
Emit(name, payload) == [name |-> name, payload |-> payload]

\* ------------------------------------------------------------------------
\* wait_for_event (tts.rs:265-298): what one turn of the loop does with the
\* item the stream yields.  done = FALSE: the loop reads the next item.
\* ------------------------------------------------------------------------
Continue == [done |-> FALSE, res |-> Running]
Return(r) == [done |-> TRUE, res |-> r]

\* Faulty variant of wait_for_event: any frame that carries an event ends
\* the wait, whatever the awaited event is.
wait_for_event_any(message, target_event) ==
    IF message.kind = "End" THEN Return(Failure(Msg("TTS connection ended")))
    ELSE IF message.kind = "Error"
         THEN Return(Failure(Msg("receive failed")))
    ELSE IF message.kind = "Binary"
         THEN LET parsed == parse_frame(message.data)
              IN  IF ~parsed.ok THEN Return(Failure(Msg(parsed.err)))
                  ELSE IF parsed.frame.message_type = MSG_TYPE_ERROR
                       THEN Return(Failure(MsgWith("TTS service error",
                                       from_utf8_lossy(parsed.frame.payload))))
                  ELSE IF parsed.frame.event.some
                       THEN Return(Success)
                  ELSE Continue
    ELSE IF message.kind = "Text"
         THEN Return(Failure(MsgWith("TTS returned text message", message.data)))
    ELSE IF message.kind = "Close"
         THEN Return(Failure(Msg("TTS connection closed")))
    ELSE Continue

\* Faulty variant of wait_for_event: the message_type of a frame is not
\* looked at, so an error frame is matched on its event code or skipped.
wait_for_event_no_error_check(message, target_event) ==
    IF message.kind = "End" THEN Return(Failure(Msg("TTS connection ended")))
    ELSE IF message.kind = "Error"
         THEN Return(Failure(Msg("receive failed")))
    ELSE IF message.kind = "Binary"
         THEN LET parsed == parse_frame(message.data)
              IN  IF ~parsed.ok THEN Return(Failure(Msg(parsed.err)))
                  ELSE IF parsed.frame.event.some
                          /\ parsed.frame.event.v = target_event
                       THEN Return(Success)
                  ELSE Continue
    ELSE IF message.kind = "Text"
         THEN Return(Failure(MsgWith("TTS returned text message", message.data)))
    ELSE IF message.kind = "Close"
         THEN Return(Failure(Msg("TTS connection closed")))
    ELSE Continue

\* Faulty variant of wait_for_event: a Close frame is skipped like a Ping.
wait_for_event_skip_close(message, target_event) ==
    IF message.kind = "End" THEN Return(Failure(Msg("TTS connection ended")))
    ELSE IF message.kind = "Error"
         THEN Return(Failure(Msg("receive failed")))
    ELSE IF message.kind = "Binary"
         THEN LET parsed == parse_frame(message.data)
              IN  IF ~parsed.ok THEN Return(Failure(Msg(parsed.err)))
                  ELSE IF parsed.frame.message_type = MSG_TYPE_ERROR
                       THEN Return(Failure(MsgWith("TTS service error",
                                       from_utf8_lossy(parsed.frame.payload))))
                  ELSE IF parsed.frame.event.some
                          /\ parsed.frame.event.v = target_event
                       THEN Return(Success)
                  ELSE Continue
    ELSE IF message.kind = "Text"
         THEN Return(Failure(MsgWith("TTS returned text message", message.data)))
    ELSE Continue

wait_for_event(message, target_event) ==
    IF message.kind = "End" THEN Return(Failure(Msg("TTS connection ended")))
    ELSE IF message.kind = "Error"
         THEN Return(Failure(Msg("receive failed")))
    ELSE IF message.kind = "Binary"
         THEN LET parsed == parse_frame(message.data)
              IN  IF ~parsed.ok THEN Return(Failure(Msg(parsed.err)))
                  ELSE IF parsed.frame.message_type = MSG_TYPE_ERROR
                       THEN Return(Failure(MsgWith("TTS service error",
                                       from_utf8_lossy(parsed.frame.payload))))
                  ELSE IF parsed.frame.event.some
                          /\ parsed.frame.event.v = target_event
                       THEN Return(Success)
                  ELSE Continue
    ELSE IF message.kind = "Text"
         THEN Return(Failure(MsgWith("TTS returned text message", message.data)))
    ELSE IF message.kind = "Close"
         THEN Return(Failure(Msg("TTS connection closed")))
    ELSE Continue

\* ------------------------------------------------------------------------
\* The audio-collection loop (tts.rs:538-608): what one turn does with the
\* item the stream yields.  ctl is "continue", "break" (the loop ends and
\* the closing handshake follows) or "return" (the call returns res).
\* ------------------------------------------------------------------------
Turn(ctl, emits, total, res) ==
    [ctl |-> ctl, emits |-> emits, total_bytes |-> total, res |-> res]

\* Faulty variant of collect_audio: a Close frame is an error, as it is in
\* wait_for_event.
collect_audio_close_fatal(message, total_bytes) ==
    IF message.kind = "End" THEN Turn("break", << >>, total_bytes, Running)
    ELSE IF message.kind = "Error"
         THEN Turn("return", << >>, total_bytes, Failure(Msg("receive failed")))
    ELSE IF message.kind = "Binary"
         THEN LET parsed == parse_frame(message.data)
                  frame == parsed.frame
              IN  IF ~parsed.ok
                  THEN Turn("return", << >>, total_bytes, Failure(Msg(parsed.err)))
                  ELSE IF frame.message_type = MSG_TYPE_ERROR
                  THEN LET m == MsgWith("TTS service error",
                                        from_utf8_lossy(frame.payload))
                       IN  Turn("return", << Emit("tts-stream-error", m) >>,
                                total_bytes, Failure(m))
                  ELSE IF frame.message_type = MSG_TYPE_AUDIO_ONLY_RESPONSE
                          /\ frame.payload # << >>
                  THEN Turn("continue",
                            << Emit("tts-stream-chunk", frame.payload) >>,
                            total_bytes + Len(frame.payload), Running)
                  ELSE IF frame.event.some
                  THEN IF frame.event.v = EVENT_TTS_RESPONSE
                          /\ frame.payload # << >>
                       THEN Turn("continue",
                                 << Emit("tts-stream-chunk", frame.payload) >>,
                                 total_bytes + Len(frame.payload), Running)
                       ELSE IF frame.event.v = EVENT_SESSION_FINISHED
                       THEN Turn("break", << >>, total_bytes, Running)
                       ELSE Turn("continue", << >>, total_bytes, Running)
                  ELSE Turn("continue", << >>, total_bytes, Running)
    ELSE IF message.kind = "Text"
         THEN LET m == MsgWith("TTS returned text message", message.data)
              IN  Turn("return", << Emit("tts-stream-error", m) >>,
                       total_bytes, Failure(m))
    ELSE IF message.kind = "Close"
         THEN Turn("return", << >>, total_bytes,
                   Failure(Msg("TTS connection closed")))
    ELSE Turn("continue", << >>, total_bytes, Running)

\* Faulty variant of collect_audio: an audio-only response is an audio chunk
\* only if it carries event 352.
collect_audio_event_only(message, total_bytes) ==
    IF message.kind = "End" THEN Turn("break", << >>, total_bytes, Running)
    ELSE IF message.kind = "Error"
         THEN Turn("return", << >>, total_bytes, Failure(Msg("receive failed")))
    ELSE IF message.kind = "Binary"
         THEN LET parsed == parse_frame(message.data)
                  frame == parsed.frame
              IN  IF ~parsed.ok
                  THEN Turn("return", << >>, total_bytes, Failure(Msg(parsed.err)))
                  ELSE IF frame.message_type = MSG_TYPE_ERROR
                  THEN LET m == MsgWith("TTS service error",
                                        from_utf8_lossy(frame.payload))
                       IN  Turn("return", << Emit("tts-stream-error", m) >>,
                                total_bytes, Failure(m))
                  ELSE IF frame.message_type = MSG_TYPE_AUDIO_ONLY_RESPONSE
                          /\ frame.payload # << >>
                          /\ frame.event = Some(EVENT_TTS_RESPONSE)
                  THEN Turn("continue",
                            << Emit("tts-stream-chunk", frame.payload) >>,
                            total_bytes + Len(frame.payload), Running)
                  ELSE IF frame.event.some
                  THEN IF frame.event.v = EVENT_TTS_RESPONSE
                          /\ frame.payload # << >>
                       THEN Turn("continue",
                                 << Emit("tts-stream-chunk", frame.payload) >>,
                                 total_bytes + Len(frame.payload), Running)
                       ELSE IF frame.event.v = EVENT_SESSION_FINISHED
                       THEN Turn("break", << >>, total_bytes, Running)
                       ELSE Turn("continue", << >>, total_bytes, Running)
                  ELSE Turn("continue", << >>, total_bytes, Running)
    ELSE IF message.kind = "Text"
         THEN LET m == MsgWith("TTS returned text message", message.data)
              IN  Turn("return", << Emit("tts-stream-error", m) >>,
                       total_bytes, Failure(m))
    ELSE IF message.kind = "Close"
         THEN Turn("break", << >>, total_bytes, Running)
    ELSE Turn("continue", << >>, total_bytes, Running)

\* Faulty variant of collect_audio: an event-352 chunk adds one to the total
\* instead of its length.
collect_audio_count_chunks(message, total_bytes) ==
    IF message.kind = "End" THEN Turn("break", << >>, total_bytes, Running)
    ELSE IF message.kind = "Error"
         THEN Turn("return", << >>, total_bytes, Failure(Msg("receive failed")))
    ELSE IF message.kind = "Binary"
         THEN LET parsed == parse_frame(message.data)
                  frame == parsed.frame
              IN  IF ~parsed.ok
                  THEN Turn("return", << >>, total_bytes, Failure(Msg(parsed.err)))
                  ELSE IF frame.message_type = MSG_TYPE_ERROR
                  THEN LET m == MsgWith("TTS service error",
                                        from_utf8_lossy(frame.payload))
                       IN  Turn("return", << Emit("tts-stream-error", m) >>,
                                total_bytes, Failure(m))
                  ELSE IF frame.message_type = MSG_TYPE_AUDIO_ONLY_RESPONSE
                          /\ frame.payload # << >>
                  THEN Turn("continue",
                            << Emit("tts-stream-chunk", frame.payload) >>,
                            total_bytes + Len(frame.payload), Running)
                  ELSE IF frame.event.some
                  THEN IF frame.event.v = EVENT_TTS_RESPONSE
                          /\ frame.payload # << >>
                       THEN Turn("continue",
                                 << Emit("tts-stream-chunk", frame.payload) >>,
                                 total_bytes + 1, Running)
                       ELSE IF frame.event.v = EVENT_SESSION_FINISHED
                       THEN Turn("break", << >>, total_bytes, Running)
                       ELSE Turn("continue", << >>, total_bytes, Running)
                  ELSE Turn("continue", << >>, total_bytes, Running)
    ELSE IF message.kind = "Text"
         THEN LET m == MsgWith("TTS returned text message", message.data)
              IN  Turn("return", << Emit("tts-stream-error", m) >>,
                       total_bytes, Failure(m))
    ELSE IF message.kind = "Close"
         THEN Turn("break", << >>, total_bytes, Running)
    ELSE Turn("continue", << >>, total_bytes, Running)

collect_audio(message, total_bytes) ==
    IF message.kind = "End" THEN Turn("break", << >>, total_bytes, Running)
    ELSE IF message.kind = "Error"
         THEN Turn("return", << >>, total_bytes, Failure(Msg("receive failed")))
    ELSE IF message.kind = "Binary"
         THEN LET parsed == parse_frame(message.data)
                  frame == parsed.frame
              IN  IF ~parsed.ok
                  THEN Turn("return", << >>, total_bytes, Failure(Msg(parsed.err)))
                  ELSE IF frame.message_type = MSG_TYPE_ERROR
                  THEN LET m == MsgWith("TTS service error",
                                        from_utf8_lossy(frame.payload))
                       IN  Turn("return", << Emit("tts-stream-error", m) >>,
                                total_bytes, Failure(m))
                  ELSE IF frame.message_type = MSG_TYPE_AUDIO_ONLY_RESPONSE
                          /\ frame.payload # << >>
                  THEN Turn("continue",
                            << Emit("tts-stream-chunk", frame.payload) >>,
                            total_bytes + Len(frame.payload), Running)
                  ELSE IF frame.event.some
                  THEN IF frame.event.v = EVENT_TTS_RESPONSE
                          /\ frame.payload # << >>
                       THEN Turn("continue",
                                 << Emit("tts-stream-chunk", frame.payload) >>,
                                 total_bytes + Len(frame.payload), Running)
                       ELSE IF frame.event.v = EVENT_SESSION_FINISHED
                       THEN Turn("break", << >>, total_bytes, Running)
                       ELSE Turn("continue", << >>, total_bytes, Running)
                  ELSE Turn("continue", << >>, total_bytes, Running)
    ELSE IF message.kind = "Text"
         THEN LET m == MsgWith("TTS returned text message", message.data)
              IN  Turn("return", << Emit("tts-stream-error", m) >>,
                       total_bytes, Failure(m))
    ELSE IF message.kind = "Close"
         THEN Turn("break", << >>, total_bytes, Running)
    ELSE Turn("continue", << >>, total_bytes, Running)

\* Faulty variant of build_full_client_request: the header declares four
\* header words.
build_full_client_request_four_words(payload) ==
    << 20, 16, 16, 0 >> \o U32ToBeBytes(Len(payload)) \o payload

\* ------------------------------------------------------------------------
\* Recognition path, stt.rs: the simple-protocol frames
\* ------------------------------------------------------------------------
\* build_full_client_request (stt.rs:61-73) on the bytes serde_json::to_vec
\* gives for the request
build_full_client_request(payload) ==
    << 17, 16, 16, 0 >> \o U32ToBeBytes(Len(payload)) \o payload

\* Faulty variant of build_audio_only_request: the flag of the last frame is
\* never set.
build_audio_only_request_never_last(audio_data, is_last) ==
    << 17, 32, 0, 0 >> \o U32ToBeBytes(Len(audio_data)) \o audio_data

\* build_audio_only_request (stt.rs:75-87)
build_audio_only_request(audio_data, is_last) ==
    LET flags == IF is_last THEN 2 ELSE 0
    IN  << 17, 32 + flags, 0, 0 >> \o U32ToBeBytes(Len(audio_data)) \o audio_data

\* Faulty variant of parse_server_payload: the compression and serialization
\* nibbles are not looked at.
parse_server_payload_any_encoding(data) ==
    IF Len(data) < 12 THEN Ok(None)
    ELSE
    LET header_size == LowNibble(At(data, 0)) * 4
        message_type == HighNibble(At(data, 1))
        payload_size_offset == header_size + 4
        payload_offset == header_size + 8
    IN  IF Len(data) < header_size + 8 THEN Ok(None)
        ELSE IF Len(data) < payload_size_offset + 4 THEN Ok(None)
        ELSE
        LET payload_size == U32FromBeBytes(data, payload_size_offset)
        IN  IF Len(data) < payload_offset + payload_size THEN Ok(None)
            ELSE
            LET payload == Slice(data, payload_offset, payload_offset + payload_size)
                payload_text == from_utf8_lossy(payload)
            IN  IF message_type = 15
                THEN Err(MsgWith("Server error response", payload_text))
                ELSE Ok(Some(payload_text))

\* Faulty variant of parse_server_payload: a frame whose declared payload
\* overruns the buffer is decoded up to the end of the buffer.
parse_server_payload_lenient(data) ==
    IF Len(data) < 12 THEN Ok(None)
    ELSE
    LET header_size == LowNibble(At(data, 0)) * 4
        message_type == HighNibble(At(data, 1))
        serialization == HighNibble(At(data, 2))
        compression == LowNibble(At(data, 2))
        payload_size_offset == header_size + 4
        payload_offset == header_size + 8
    IN  IF Len(data) < header_size + 8 THEN Ok(None)
        ELSE IF compression # 0
             THEN Err(Msg("Unsupported compression in server response"))
        ELSE IF serialization # 1 /\ serialization # 0
             THEN Err(Msg("Unsupported serialization in server response"))
        ELSE IF Len(data) < payload_size_offset + 4 THEN Ok(None)
        ELSE
        LET payload_size == U32FromBeBytes(data, payload_size_offset)
            payload_end == IF Len(data) < payload_offset + payload_size
                           THEN Len(data)
                           ELSE payload_offset + payload_size
            payload == Slice(data, payload_offset, payload_end)
            payload_text == from_utf8_lossy(payload)
        IN  IF message_type = 15
            THEN Err(MsgWith("Server error response", payload_text))
            ELSE Ok(Some(payload_text))

\* parse_server_payload (stt.rs:89-133): Result<Option<String>, String> as
\* Ok(None), Ok(Some(text)) or Err(message)
parse_server_payload(data) ==
    IF Len(data) < 12 THEN Ok(None)
    ELSE
    LET header_size == LowNibble(At(data, 0)) * 4
        message_type == HighNibble(At(data, 1))
        serialization == HighNibble(At(data, 2))
        compression == LowNibble(At(data, 2))
        payload_size_offset == header_size + 4
        payload_offset == header_size + 8
    IN  IF Len(data) < header_size + 8 THEN Ok(None)
        ELSE IF compression # 0
             THEN Err(Msg("Unsupported compression in server response"))
        ELSE IF serialization # 1 /\ serialization # 0
             THEN Err(Msg("Unsupported serialization in server response"))
        ELSE IF Len(data) < payload_size_offset + 4 THEN Ok(None)
        ELSE
        LET payload_size == U32FromBeBytes(data, payload_size_offset)
        IN  IF Len(data) < payload_offset + payload_size THEN Ok(None)
            ELSE
            LET payload == Slice(data, payload_offset, payload_offset + payload_size)
                payload_text == from_utf8_lossy(payload)
            IN  IF message_type = 15
                THEN Err(MsgWith("Server error response", payload_text))
                ELSE Ok(Some(payload_text))

\* ------------------------------------------------------------------------
\* Recognition path: parse_audio_format
\* ------------------------------------------------------------------------
\* str::to_lowercase (stt.rs:136, stt_ws_test.rs:167) over the whole of
\* Unicode.  The three tables below hold the data of the standard library
\* (core::unicode) for Unicode 17.0: the simple lower-case mappings of
\* UnicodeData.txt and the derived properties Cased and Case_Ignorable.
\* char::to_lowercase, the characters with one lower-case character: every
\* step-th character from lo to hi maps to itself plus delta, as
\* << lo, hi, step, delta >>
LowerRanges ==
    { << 65, 90, 1, 32 >>, << 192, 214, 1, 32 >>, << 216, 222, 1, 32 >>,
      << 256, 302, 2, 1 >>, << 306, 310, 2, 1 >>, << 313, 327, 2, 1 >>,
      << 330, 374, 2, 1 >>, << 376, 376, 1, -121 >>, << 377, 381, 2, 1 >>,
      << 385, 385, 1, 210 >>, << 386, 388, 2, 1 >>, << 390, 390, 1, 206 >>,
      << 391, 391, 1, 1 >>, << 393, 394, 1, 205 >>, << 395, 395, 1, 1 >>,
      << 398, 398, 1, 79 >>, << 399, 399, 1, 202 >>, << 400, 400, 1, 203 >>,
      << 401, 401, 1, 1 >>, << 403, 403, 1, 205 >>, << 404, 404, 1, 207 >>,
      << 406, 406, 1, 211 >>, << 407, 407, 1, 209 >>, << 408, 408, 1, 1 >>,
      << 412, 412, 1, 211 >>, << 413, 413, 1, 213 >>, << 415, 415, 1, 214 >>,
      << 416, 420, 2, 1 >>, << 422, 422, 1, 218 >>, << 423, 423, 1, 1 >>,
      << 425, 425, 1, 218 >>, << 428, 428, 1, 1 >>, << 430, 430, 1, 218 >>,
      << 431, 431, 1, 1 >>, << 433, 434, 1, 217 >>, << 435, 437, 2, 1 >>,
      << 439, 439, 1, 219 >>, << 440, 440, 1, 1 >>, << 444, 444, 1, 1 >>,
      << 452, 452, 1, 2 >>, << 453, 453, 1, 1 >>, << 455, 455, 1, 2 >>,
      << 456, 456, 1, 1 >>, << 458, 458, 1, 2 >>, << 459, 475, 2, 1 >>,
      << 478, 494, 2, 1 >>, << 497, 497, 1, 2 >>, << 498, 500, 2, 1 >>,
      << 502, 502, 1, -97 >>, << 503, 503, 1, -56 >>, << 504, 542, 2, 1 >>,
      << 544, 544, 1, -130 >>, << 546, 562, 2, 1 >>,
      << 570, 570, 1, 10795 >>, << 571, 571, 1, 1 >>,
      << 573, 573, 1, -163 >>, << 574, 574, 1, 10792 >>,
      << 577, 577, 1, 1 >>, << 579, 579, 1, -195 >>, << 580, 580, 1, 69 >>,
      << 581, 581, 1, 71 >>, << 582, 590, 2, 1 >>, << 880, 882, 2, 1 >>,
      << 886, 886, 1, 1 >>, << 895, 895, 1, 116 >>, << 902, 902, 1, 38 >>,
      << 904, 906, 1, 37 >>, << 908, 908, 1, 64 >>, << 910, 911, 1, 63 >>,
      << 913, 929, 1, 32 >>, << 931, 939, 1, 32 >>, << 975, 975, 1, 8 >>,
      << 984, 1006, 2, 1 >>, << 1012, 1012, 1, -60 >>,
      << 1015, 1015, 1, 1 >>, << 1017, 1017, 1, -7 >>,
      << 1018, 1018, 1, 1 >>, << 1021, 1023, 1, -130 >>,
      << 1024, 1039, 1, 80 >>, << 1040, 1071, 1, 32 >>,
      << 1120, 1152, 2, 1 >>, << 1162, 1214, 2, 1 >>,
      << 1216, 1216, 1, 15 >>, << 1217, 1229, 2, 1 >>,
      << 1232, 1326, 2, 1 >>, << 1329, 1366, 1, 48 >>,
      << 4256, 4293, 1, 7264 >>, << 4295, 4295, 1, 7264 >>,
      << 4301, 4301, 1, 7264 >>, << 5024, 5103, 1, 38864 >>,
      << 5104, 5109, 1, 8 >>, << 7305, 7305, 1, 1 >>,
      << 7312, 7354, 1, -3008 >>, << 7357, 7359, 1, -3008 >>,
      << 7680, 7828, 2, 1 >>, << 7838, 7838, 1, -7615 >>,
      << 7840, 7934, 2, 1 >>, << 7944, 7951, 1, -8 >>,
      << 7960, 7965, 1, -8 >>, << 7976, 7983, 1, -8 >>,
      << 7992, 7999, 1, -8 >>, << 8008, 8013, 1, -8 >>,
      << 8025, 8031, 2, -8 >>, << 8040, 8047, 1, -8 >>,
      << 8072, 8079, 1, -8 >>, << 8088, 8095, 1, -8 >>,
      << 8104, 8111, 1, -8 >>, << 8120, 8121, 1, -8 >>,
      << 8122, 8123, 1, -74 >>, << 8124, 8124, 1, -9 >>,
      << 8136, 8139, 1, -86 >>, << 8140, 8140, 1, -9 >>,
      << 8152, 8153, 1, -8 >>, << 8154, 8155, 1, -100 >>,
      << 8168, 8169, 1, -8 >>, << 8170, 8171, 1, -112 >>,
      << 8172, 8172, 1, -7 >>, << 8184, 8185, 1, -128 >>,
      << 8186, 8187, 1, -126 >>, << 8188, 8188, 1, -9 >>,
      << 8486, 8486, 1, -7517 >>, << 8490, 8490, 1, -8383 >>,
      << 8491, 8491, 1, -8262 >>, << 8498, 8498, 1, 28 >>,
      << 8544, 8559, 1, 16 >>, << 8579, 8579, 1, 1 >>,
      << 9398, 9423, 1, 26 >>, << 11264, 11311, 1, 48 >>,
      << 11360, 11360, 1, 1 >>, << 11362, 11362, 1, -10743 >>,
      << 11363, 11363, 1, -3814 >>, << 11364, 11364, 1, -10727 >>,
      << 11367, 11371, 2, 1 >>, << 11373, 11373, 1, -10780 >>,
      << 11374, 11374, 1, -10749 >>, << 11375, 11375, 1, -10783 >>,
      << 11376, 11376, 1, -10782 >>, << 11378, 11378, 1, 1 >>,
      << 11381, 11381, 1, 1 >>, << 11390, 11391, 1, -10815 >>,
      << 11392, 11490, 2, 1 >>, << 11499, 11501, 2, 1 >>,
      << 11506, 11506, 1, 1 >>, << 42560, 42604, 2, 1 >>,
      << 42624, 42650, 2, 1 >>, << 42786, 42798, 2, 1 >>,
      << 42802, 42862, 2, 1 >>, << 42873, 42875, 2, 1 >>,
      << 42877, 42877, 1, -35332 >>, << 42878, 42886, 2, 1 >>,
      << 42891, 42891, 1, 1 >>, << 42893, 42893, 1, -42280 >>,
      << 42896, 42898, 2, 1 >>, << 42902, 42920, 2, 1 >>,
      << 42922, 42922, 1, -42308 >>, << 42923, 42923, 1, -42319 >>,
      << 42924, 42924, 1, -42315 >>, << 42925, 42925, 1, -42305 >>,
      << 42926, 42926, 1, -42308 >>, << 42928, 42928, 1, -42258 >>,
      << 42929, 42929, 1, -42282 >>, << 42930, 42930, 1, -42261 >>,
      << 42931, 42931, 1, 928 >>, << 42932, 42946, 2, 1 >>,
      << 42948, 42948, 1, -48 >>, << 42949, 42949, 1, -42307 >>,
      << 42950, 42950, 1, -35384 >>, << 42951, 42953, 2, 1 >>,
      << 42955, 42955, 1, -42343 >>, << 42956, 42970, 2, 1 >>,
      << 42972, 42972, 1, -42561 >>, << 42997, 42997, 1, 1 >>,
      << 65313, 65338, 1, 32 >>, << 66560, 66599, 1, 40 >>,
      << 66736, 66771, 1, 40 >>, << 66928, 66938, 1, 39 >>,
      << 66940, 66954, 1, 39 >>, << 66956, 66962, 1, 39 >>,
      << 66964, 66965, 1, 39 >>, << 68736, 68786, 1, 64 >>,
      << 68944, 68965, 1, 32 >>, << 71840, 71871, 1, 32 >>,
      << 93760, 93791, 1, 32 >>, << 93856, 93880, 1, 27 >>,
      << 125184, 125217, 1, 34 >> }

\* the characters with the Unicode property Cased, as << lo, hi >>
CasedRanges ==
    { << 65, 90 >>, << 97, 122 >>, << 170, 170 >>, << 181, 181 >>,
      << 186, 186 >>, << 192, 214 >>, << 216, 246 >>, << 248, 442 >>,
      << 444, 447 >>, << 452, 659 >>, << 662, 696 >>, << 704, 705 >>,
      << 736, 740 >>, << 837, 837 >>, << 880, 883 >>, << 886, 887 >>,
      << 890, 893 >>, << 895, 895 >>, << 902, 902 >>, << 904, 906 >>,
      << 908, 908 >>, << 910, 929 >>, << 931, 1013 >>, << 1015, 1153 >>,
      << 1162, 1327 >>, << 1329, 1366 >>, << 1376, 1416 >>, << 4256, 4293 >>,
      << 4295, 4295 >>, << 4301, 4301 >>, << 4304, 4346 >>, << 4348, 4351 >>,
      << 5024, 5109 >>, << 5112, 5117 >>, << 7296, 7306 >>, << 7312, 7354 >>,
      << 7357, 7359 >>, << 7424, 7615 >>, << 7680, 7957 >>, << 7960, 7965 >>,
      << 7968, 8005 >>, << 8008, 8013 >>, << 8016, 8023 >>, << 8025, 8025 >>,
      << 8027, 8027 >>, << 8029, 8029 >>, << 8031, 8061 >>, << 8064, 8116 >>,
      << 8118, 8124 >>, << 8126, 8126 >>, << 8130, 8132 >>, << 8134, 8140 >>,
      << 8144, 8147 >>, << 8150, 8155 >>, << 8160, 8172 >>, << 8178, 8180 >>,
      << 8182, 8188 >>, << 8305, 8305 >>, << 8319, 8319 >>, << 8336, 8348 >>,
      << 8450, 8450 >>, << 8455, 8455 >>, << 8458, 8467 >>, << 8469, 8469 >>,
      << 8473, 8477 >>, << 8484, 8484 >>, << 8486, 8486 >>, << 8488, 8488 >>,
      << 8490, 8493 >>, << 8495, 8500 >>, << 8505, 8505 >>, << 8508, 8511 >>,
      << 8517, 8521 >>, << 8526, 8526 >>, << 8544, 8575 >>, << 8579, 8580 >>,
      << 9398, 9449 >>, << 11264, 11492 >>, << 11499, 11502 >>,
      << 11506, 11507 >>, << 11520, 11557 >>, << 11559, 11559 >>,
      << 11565, 11565 >>, << 42560, 42605 >>, << 42624, 42653 >>,
      << 42786, 42887 >>, << 42891, 42894 >>, << 42896, 42972 >>,
      << 42993, 42998 >>, << 43000, 43002 >>, << 43824, 43866 >>,
      << 43868, 43881 >>, << 43888, 43967 >>, << 64256, 64262 >>,
      << 64275, 64279 >>, << 65313, 65338 >>, << 65345, 65370 >>,
      << 66560, 66639 >>, << 66736, 66771 >>, << 66776, 66811 >>,
      << 66928, 66938 >>, << 66940, 66954 >>, << 66956, 66962 >>,
      << 66964, 66965 >>, << 66967, 66977 >>, << 66979, 66993 >>,
      << 66995, 67001 >>, << 67003, 67004 >>, << 67456, 67456 >>,
      << 67459, 67461 >>, << 67463, 67504 >>, << 67506, 67514 >>,
      << 68736, 68786 >>, << 68800, 68850 >>, << 68944, 68965 >>,
      << 68976, 68997 >>, << 71840, 71903 >>, << 93760, 93823 >>,
      << 93856, 93880 >>, << 93883, 93907 >>, << 119808, 119892 >>,
      << 119894, 119964 >>, << 119966, 119967 >>, << 119970, 119970 >>,
      << 119973, 119974 >>, << 119977, 119980 >>, << 119982, 119993 >>,
      << 119995, 119995 >>, << 119997, 120003 >>, << 120005, 120069 >>,
      << 120071, 120074 >>, << 120077, 120084 >>, << 120086, 120092 >>,
      << 120094, 120121 >>, << 120123, 120126 >>, << 120128, 120132 >>,
      << 120134, 120134 >>, << 120138, 120144 >>, << 120146, 120485 >>,
      << 120488, 120512 >>, << 120514, 120538 >>, << 120540, 120570 >>,
      << 120572, 120596 >>, << 120598, 120628 >>, << 120630, 120654 >>,
      << 120656, 120686 >>, << 120688, 120712 >>, << 120714, 120744 >>,
      << 120746, 120770 >>, << 120772, 120779 >>, << 122624, 122633 >>,
      << 122635, 122654 >>, << 122661, 122666 >>, << 122928, 122989 >>,
      << 125184, 125251 >>, << 127280, 127305 >>, << 127312, 127337 >>,
      << 127344, 127369 >> }

\* the characters with the Unicode property Case_Ignorable, as << lo, hi >>
CaseIgnorableRanges ==
    { << 39, 39 >>, << 46, 46 >>, << 58, 58 >>, << 94, 94 >>, << 96, 96 >>,
      << 168, 168 >>, << 173, 173 >>, << 175, 175 >>, << 180, 180 >>,
      << 183, 184 >>, << 688, 879 >>, << 884, 885 >>, << 890, 890 >>,
      << 900, 901 >>, << 903, 903 >>, << 1155, 1161 >>, << 1369, 1369 >>,
      << 1375, 1375 >>, << 1425, 1469 >>, << 1471, 1471 >>, << 1473, 1474 >>,
      << 1476, 1477 >>, << 1479, 1479 >>, << 1524, 1524 >>, << 1536, 1541 >>,
      << 1552, 1562 >>, << 1564, 1564 >>, << 1600, 1600 >>, << 1611, 1631 >>,
      << 1648, 1648 >>, << 1750, 1757 >>, << 1759, 1768 >>, << 1770, 1773 >>,
      << 1807, 1807 >>, << 1809, 1809 >>, << 1840, 1866 >>, << 1958, 1968 >>,
      << 2027, 2037 >>, << 2042, 2042 >>, << 2045, 2045 >>, << 2070, 2093 >>,
      << 2137, 2139 >>, << 2184, 2184 >>, << 2192, 2193 >>, << 2199, 2207 >>,
      << 2249, 2306 >>, << 2362, 2362 >>, << 2364, 2364 >>, << 2369, 2376 >>,
      << 2381, 2381 >>, << 2385, 2391 >>, << 2402, 2403 >>, << 2417, 2417 >>,
      << 2433, 2433 >>, << 2492, 2492 >>, << 2497, 2500 >>, << 2509, 2509 >>,
      << 2530, 2531 >>, << 2558, 2558 >>, << 2561, 2562 >>, << 2620, 2620 >>,
      << 2625, 2626 >>, << 2631, 2632 >>, << 2635, 2637 >>, << 2641, 2641 >>,
      << 2672, 2673 >>, << 2677, 2677 >>, << 2689, 2690 >>, << 2748, 2748 >>,
      << 2753, 2757 >>, << 2759, 2760 >>, << 2765, 2765 >>, << 2786, 2787 >>,
      << 2810, 2815 >>, << 2817, 2817 >>, << 2876, 2876 >>, << 2879, 2879 >>,
      << 2881, 2884 >>, << 2893, 2893 >>, << 2901, 2902 >>, << 2914, 2915 >>,
      << 2946, 2946 >>, << 3008, 3008 >>, << 3021, 3021 >>, << 3072, 3072 >>,
      << 3076, 3076 >>, << 3132, 3132 >>, << 3134, 3136 >>, << 3142, 3144 >>,
      << 3146, 3149 >>, << 3157, 3158 >>, << 3170, 3171 >>, << 3201, 3201 >>,
      << 3260, 3260 >>, << 3263, 3263 >>, << 3270, 3270 >>, << 3276, 3277 >>,
      << 3298, 3299 >>, << 3328, 3329 >>, << 3387, 3388 >>, << 3393, 3396 >>,
      << 3405, 3405 >>, << 3426, 3427 >>, << 3457, 3457 >>, << 3530, 3530 >>,
      << 3538, 3540 >>, << 3542, 3542 >>, << 3633, 3633 >>, << 3636, 3642 >>,
      << 3654, 3662 >>, << 3761, 3761 >>, << 3764, 3772 >>, << 3782, 3782 >>,
      << 3784, 3790 >>, << 3864, 3865 >>, << 3893, 3893 >>, << 3895, 3895 >>,
      << 3897, 3897 >>, << 3953, 3966 >>, << 3968, 3972 >>, << 3974, 3975 >>,
      << 3981, 3991 >>, << 3993, 4028 >>, << 4038, 4038 >>, << 4141, 4144 >>,
      << 4146, 4151 >>, << 4153, 4154 >>, << 4157, 4158 >>, << 4184, 4185 >>,
      << 4190, 4192 >>, << 4209, 4212 >>, << 4226, 4226 >>, << 4229, 4230 >>,
      << 4237, 4237 >>, << 4253, 4253 >>, << 4348, 4348 >>, << 4957, 4959 >>,
      << 5906, 5908 >>, << 5938, 5939 >>, << 5970, 5971 >>, << 6002, 6003 >>,
      << 6068, 6069 >>, << 6071, 6077 >>, << 6086, 6086 >>, << 6089, 6099 >>,
      << 6103, 6103 >>, << 6109, 6109 >>, << 6155, 6159 >>, << 6211, 6211 >>,
      << 6277, 6278 >>, << 6313, 6313 >>, << 6432, 6434 >>, << 6439, 6440 >>,
      << 6450, 6450 >>, << 6457, 6459 >>, << 6679, 6680 >>, << 6683, 6683 >>,
      << 6742, 6742 >>, << 6744, 6750 >>, << 6752, 6752 >>, << 6754, 6754 >>,
      << 6757, 6764 >>, << 6771, 6780 >>, << 6783, 6783 >>, << 6823, 6823 >>,
      << 6832, 6877 >>, << 6880, 6891 >>, << 6912, 6915 >>, << 6964, 6964 >>,
      << 6966, 6970 >>, << 6972, 6972 >>, << 6978, 6978 >>, << 7019, 7027 >>,
      << 7040, 7041 >>, << 7074, 7077 >>, << 7080, 7081 >>, << 7083, 7085 >>,
      << 7142, 7142 >>, << 7144, 7145 >>, << 7149, 7149 >>, << 7151, 7153 >>,
      << 7212, 7219 >>, << 7222, 7223 >>, << 7288, 7293 >>, << 7376, 7378 >>,
      << 7380, 7392 >>, << 7394, 7400 >>, << 7405, 7405 >>, << 7412, 7412 >>,
      << 7416, 7417 >>, << 7468, 7530 >>, << 7544, 7544 >>, << 7579, 7679 >>,
      << 8125, 8125 >>, << 8127, 8129 >>, << 8141, 8143 >>, << 8157, 8159 >>,
      << 8173, 8175 >>, << 8189, 8190 >>, << 8203, 8207 >>, << 8216, 8217 >>,
      << 8228, 8228 >>, << 8231, 8231 >>, << 8234, 8238 >>, << 8288, 8292 >>,
      << 8294, 8303 >>, << 8305, 8305 >>, << 8319, 8319 >>, << 8336, 8348 >>,
      << 8400, 8432 >>, << 11388, 11389 >>, << 11503, 11505 >>,
      << 11631, 11631 >>, << 11647, 11647 >>, << 11744, 11775 >>,
      << 11823, 11823 >>, << 12293, 12293 >>, << 12330, 12333 >>,
      << 12337, 12341 >>, << 12347, 12347 >>, << 12441, 12446 >>,
      << 12540, 12542 >>, << 40981, 40981 >>, << 42232, 42237 >>,
      << 42508, 42508 >>, << 42607, 42610 >>, << 42612, 42621 >>,
      << 42623, 42623 >>, << 42652, 42655 >>, << 42736, 42737 >>,
      << 42752, 42785 >>, << 42864, 42864 >>, << 42888, 42890 >>,
      << 42993, 42996 >>, << 43000, 43001 >>, << 43010, 43010 >>,
      << 43014, 43014 >>, << 43019, 43019 >>, << 43045, 43046 >>,
      << 43052, 43052 >>, << 43204, 43205 >>, << 43232, 43249 >>,
      << 43263, 43263 >>, << 43302, 43309 >>, << 43335, 43345 >>,
      << 43392, 43394 >>, << 43443, 43443 >>, << 43446, 43449 >>,
      << 43452, 43453 >>, << 43471, 43471 >>, << 43493, 43494 >>,
      << 43561, 43566 >>, << 43569, 43570 >>, << 43573, 43574 >>,
      << 43587, 43587 >>, << 43596, 43596 >>, << 43632, 43632 >>,
      << 43644, 43644 >>, << 43696, 43696 >>, << 43698, 43700 >>,
      << 43703, 43704 >>, << 43710, 43711 >>, << 43713, 43713 >>,
      << 43741, 43741 >>, << 43756, 43757 >>, << 43763, 43764 >>,
      << 43766, 43766 >>, << 43867, 43871 >>, << 43881, 43883 >>,
      << 44005, 44005 >>, << 44008, 44008 >>, << 44013, 44013 >>,
      << 64286, 64286 >>, << 64434, 64450 >>, << 65024, 65039 >>,
      << 65043, 65043 >>, << 65056, 65071 >>, << 65106, 65106 >>,
      << 65109, 65109 >>, << 65279, 65279 >>, << 65287, 65287 >>,
      << 65294, 65294 >>, << 65306, 65306 >>, << 65342, 65342 >>,
      << 65344, 65344 >>, << 65392, 65392 >>, << 65438, 65439 >>,
      << 65507, 65507 >>, << 65529, 65531 >>, << 66045, 66045 >>,
      << 66272, 66272 >>, << 66422, 66426 >>, << 67456, 67461 >>,
      << 67463, 67504 >>, << 67506, 67514 >>, << 68097, 68099 >>,
      << 68101, 68102 >>, << 68108, 68111 >>, << 68152, 68154 >>,
      << 68159, 68159 >>, << 68325, 68326 >>, << 68900, 68903 >>,
      << 68942, 68942 >>, << 68969, 68973 >>, << 68975, 68975 >>,
      << 69291, 69292 >>, << 69317, 69317 >>, << 69370, 69375 >>,
      << 69446, 69456 >>, << 69506, 69509 >>, << 69633, 69633 >>,
      << 69688, 69702 >>, << 69744, 69744 >>, << 69747, 69748 >>,
      << 69759, 69761 >>, << 69811, 69814 >>, << 69817, 69818 >>,
      << 69821, 69821 >>, << 69826, 69826 >>, << 69837, 69837 >>,
      << 69888, 69890 >>, << 69927, 69931 >>, << 69933, 69940 >>,
      << 70003, 70003 >>, << 70016, 70017 >>, << 70070, 70078 >>,
      << 70089, 70092 >>, << 70095, 70095 >>, << 70191, 70193 >>,
      << 70196, 70196 >>, << 70198, 70199 >>, << 70206, 70206 >>,
      << 70209, 70209 >>, << 70367, 70367 >>, << 70371, 70378 >>,
      << 70400, 70401 >>, << 70459, 70460 >>, << 70464, 70464 >>,
      << 70502, 70508 >>, << 70512, 70516 >>, << 70587, 70592 >>,
      << 70606, 70606 >>, << 70608, 70608 >>, << 70610, 70610 >>,
      << 70625, 70626 >>, << 70712, 70719 >>, << 70722, 70724 >>,
      << 70726, 70726 >>, << 70750, 70750 >>, << 70835, 70840 >>,
      << 70842, 70842 >>, << 70847, 70848 >>, << 70850, 70851 >>,
      << 71090, 71093 >>, << 71100, 71101 >>, << 71103, 71104 >>,
      << 71132, 71133 >>, << 71219, 71226 >>, << 71229, 71229 >>,
      << 71231, 71232 >>, << 71339, 71339 >>, << 71341, 71341 >>,
      << 71344, 71349 >>, << 71351, 71351 >>, << 71453, 71453 >>,
      << 71455, 71455 >>, << 71458, 71461 >>, << 71463, 71467 >>,
      << 71727, 71735 >>, << 71737, 71738 >>, << 71995, 71996 >>,
      << 71998, 71998 >>, << 72003, 72003 >>, << 72148, 72151 >>,
      << 72154, 72155 >>, << 72160, 72160 >>, << 72193, 72202 >>,
      << 72243, 72248 >>, << 72251, 72254 >>, << 72263, 72263 >>,
      << 72273, 72278 >>, << 72281, 72283 >>, << 72330, 72342 >>,
      << 72344, 72345 >>, << 72544, 72544 >>, << 72546, 72548 >>,
      << 72550, 72550 >>, << 72752, 72758 >>, << 72760, 72765 >>,
      << 72767, 72767 >>, << 72850, 72871 >>, << 72874, 72880 >>,
      << 72882, 72883 >>, << 72885, 72886 >>, << 73009, 73014 >>,
      << 73018, 73018 >>, << 73020, 73021 >>, << 73023, 73029 >>,
      << 73031, 73031 >>, << 73104, 73105 >>, << 73109, 73109 >>,
      << 73111, 73111 >>, << 73177, 73177 >>, << 73459, 73460 >>,
      << 73472, 73473 >>, << 73526, 73530 >>, << 73536, 73536 >>,
      << 73538, 73538 >>, << 73562, 73562 >>, << 78896, 78912 >>,
      << 78919, 78933 >>, << 90398, 90409 >>, << 90413, 90415 >>,
      << 92912, 92916 >>, << 92976, 92982 >>, << 92992, 92995 >>,
      << 93504, 93506 >>, << 93547, 93548 >>, << 94031, 94031 >>,
      << 94095, 94111 >>, << 94176, 94177 >>, << 94179, 94180 >>,
      << 94194, 94195 >>, << 110576, 110579 >>, << 110581, 110587 >>,
      << 110589, 110590 >>, << 113821, 113822 >>, << 113824, 113827 >>,
      << 118528, 118573 >>, << 118576, 118598 >>, << 119143, 119145 >>,
      << 119155, 119170 >>, << 119173, 119179 >>, << 119210, 119213 >>,
      << 119362, 119364 >>, << 121344, 121398 >>, << 121403, 121452 >>,
      << 121461, 121461 >>, << 121476, 121476 >>, << 121499, 121503 >>,
      << 121505, 121519 >>, << 122880, 122886 >>, << 122888, 122904 >>,
      << 122907, 122913 >>, << 122915, 122916 >>, << 122918, 122922 >>,
      << 122928, 122989 >>, << 123023, 123023 >>, << 123184, 123197 >>,
      << 123566, 123566 >>, << 123628, 123631 >>, << 124139, 124143 >>,
      << 124398, 124399 >>, << 124643, 124643 >>, << 124646, 124646 >>,
      << 124654, 124655 >>, << 124661, 124661 >>, << 124671, 124671 >>,
      << 125136, 125142 >>, << 125252, 125259 >>, << 127995, 127999 >>,
      << 917505, 917505 >>, << 917536, 917631 >>, << 917760, 917999 >> }

\* char::to_lowercase: the lower-case form of one character, as a text;
\* U+0130 is the one character with two
LowerChar(c) ==
    LET hit == { r \in LowerRanges :
                   c \in r[1]..r[2] /\ (c - r[1]) % r[3] = 0 }
    IN  IF c = 304 THEN << 105, 775 >>
        ELSE IF hit = {} THEN << c >>
        ELSE << c + (CHOOSE r \in hit : TRUE)[4] >>

\* the Unicode property Cased
Cased(c) == \E r \in CasedRanges : c \in r[1]..r[2]

\* the Unicode property Case_Ignorable
Case_Ignorable(c) == \E r \in CaseIgnorableRanges : c \in r[1]..r[2]

\* case_ignorable_then_cased over the characters of s in order: the first
\* character that is not Case_Ignorable is Cased
case_ignorable_then_cased(s) ==
    \E i \in 1..Len(s) :
      /\ Cased(s[i])
      /\ ~Case_Ignorable(s[i])
      /\ \A k \in 1..(i - 1) : Case_Ignorable(s[k])

\* the capital sigma at position i of s ends a word: a cased letter comes
\* before it and none after it, case-ignorable characters skipped
FinalSigma(s, i) ==
    /\ case_ignorable_then_cased([k \in 1..(i - 1) |-> s[i - k]])
    /\ ~case_ignorable_then_cased(SubSeq(s, i + 1, Len(s)))

RECURSIVE LowerFrom(_, _)
LowerFrom(s, i) ==
    IF i > Len(s) THEN << >>
    ELSE (IF s[i] = 931 THEN << IF FinalSigma(s, i) THEN 962 ELSE 963 >>
          ELSE LowerChar(s[i]))
           \o LowerFrom(s, i + 1)

to_lowercase(s) == LowerFrom(s, 1)

\* str::contains
contains(s, pat) ==
    \E i \in 0..(Len(s) - Len(pat)) : SubSeq(s, i + 1, i + Len(pat)) = pat

\* the format and codec names
Webm == << 119, 101, 98, 109 >>
Opus == << 111, 112, 117, 115 >>
Ogg == << 111, 103, 103 >>
Mp4 == << 109, 112, 52 >>
M4a == << 109, 52, 97 >>
Aac == << 97, 97, 99 >>
Mpeg == << 109, 112, 101, 103 >>
Mp3 == << 109, 112, 51 >>
Wav == << 119, 97, 118 >>
Pcm == << 112, 99, 109 >>
Raw == << 114, 97, 119 >>

AudioFormat(format, codec) == [ok |-> TRUE, format |-> format, codec |-> codec]
NoAudioFormat(m) == [ok |-> FALSE, err |-> m]

\* parse_audio_format (stt.rs:135-163)
parse_audio_format(mime_type) ==
    LET mime == to_lowercase(mime_type)
    IN  IF contains(mime, Webm) THEN AudioFormat(Webm, Opus)
        ELSE IF contains(mime, Ogg) THEN AudioFormat(Ogg, Opus)
        ELSE IF contains(mime, Mp4) \/ contains(mime, M4a) \/ contains(mime, Aac)
             THEN AudioFormat(Mp4, Aac)
        ELSE IF contains(mime, Mpeg) \/ contains(mime, Mp3)
             THEN AudioFormat(Mp3, Raw)
        ELSE IF contains(mime, Wav) THEN AudioFormat(Wav, Raw)
        ELSE IF contains(mime, Pcm) THEN AudioFormat(Pcm, Raw)
        ELSE IF mime = << >> THEN AudioFormat(Webm, Opus)
        ELSE NoAudioFormat(MsgWith("unsupported audio format", mime_type))

\* the last position of character c in s, 0 when s has none
RECURSIVE LastIndexOf(_, _)
LastIndexOf(s, c) ==
    IF s = << >> THEN 0
    ELSE IF s[Len(s)] = c THEN Len(s)
    ELSE LastIndexOf(SubSeq(s, 1, Len(s) - 1), c)

\* Path::extension().and_then(|s| s.to_str()).unwrap_or("") for a path
\* that ends in a file name: the part of the file name after its last dot,
\* empty when the file name has no dot or only a leading one
extension(path) ==
    LET slash == LastIndexOf(path, 47)
        file_name == SubSeq(path, slash + 1, Len(path))
        dot == LastIndexOf(file_name, 46)
    IN  IF file_name = << 46, 46 >> \/ dot <= 1 THEN << >>
        ELSE SubSeq(file_name, dot + 1, Len(file_name))

\* parse_audio_format of the test program (stt_ws_test.rs:162-190)
parse_audio_format_by_extension(path) ==
    LET ext == to_lowercase(extension(path))
    IN  IF ext = Webm THEN AudioFormat(Webm, Opus)
        ELSE IF ext = Ogg THEN AudioFormat(Ogg, Opus)
        ELSE IF ext = Mp4 \/ ext = M4a THEN AudioFormat(Mp4, Aac)
        ELSE IF ext = Mp3 THEN AudioFormat(Mp3, Raw)
        ELSE IF ext = Wav THEN AudioFormat(Wav, Raw)
        ELSE IF ext = Pcm THEN AudioFormat(Pcm, Raw)
        ELSE IF ext = << >> THEN AudioFormat(Webm, Opus)
        ELSE NoAudioFormat(MsgWith("Unsupported audio extension", ext))

\* serde_json::to_vec(&SttRequest) (stt.rs:11-41, 189-206): the fields in
\* declaration order, enable_itn and enable_punc skipped because None:
\* {"user":{"uid":<uid>},"audio":{"format":<format>,"codec":<codec>,
\*  "rate":16000,"bits":16,"channel":1},"request":{"model_name":"bigmodel",
\*  "show_utterances":true}}
SttRequest(uid, format, codec) ==
    << 123, 34, 117, 115, 101, 114, 34, 58, 123, 34, 117, 105, 100, 34, 58 >>
    \o JsonString(uid)
    \o << 125, 44, 34, 97, 117, 100, 105, 111, 34, 58, 123, 34, 102, 111, 114,
          109, 97, 116, 34, 58 >>
    \o JsonString(format)
    \o << 44, 34, 99, 111, 100, 101, 99, 34, 58 >>
    \o JsonString(codec)
    \o << 44, 34, 114, 97, 116, 101, 34, 58, 49, 54, 48, 48, 48, 44, 34, 98,
          105, 116, 115, 34, 58, 49, 54, 44, 34, 99, 104, 97, 110, 110, 101,
          108, 34, 58, 49, 125, 44, 34, 114, 101, 113, 117, 101, 115, 116, 34,
          58, 123, 34, 109, 111, 100, 101, 108, 95, 110, 97, 109, 101, 34, 58,
          34, 98, 105, 103, 109, 111, 100, 101, 108, 34, 44, 34, 115, 104, 111,
          119, 95, 117, 116, 116, 101, 114, 97, 110, 99, 101, 115, 34, 58, 116,
          114, 117, 101, 125, 125 >>

\* "reason-desktop" (stt.rs:191) and "stt-ws-test" (stt_ws_test.rs:219)
UidDesktop ==
    << 114, 101, 97, 115, 111, 110, 45, 100, 101, 115, 107, 116, 111, 112 >>
UidTest == << 115, 116, 116, 45, 119, 115, 45, 116, 101, 115, 116 >>

\* ------------------------------------------------------------------------
\* Recognition path: serde_json::from_str::<SttResponse> (stt.rs:43-58)
\* A JSON text is read into a value, and the value into the response.
\* Values: [t |-> "null"], [t |-> "bool"], [t |-> "num", int, v],
\* [t |-> "str", s, lone], [t |-> "arr", items], [t |-> "obj", members].
\* ------------------------------------------------------------------------
JsonWs(c) == c \in {32, 9, 10, 13}

RECURSIVE SkipWs(_, _)
SkipWs(s, i) == IF i <= Len(s) /\ JsonWs(s[i]) THEN SkipWs(s, i + 1) ELSE i

\* the character at position i, -1 at the end of the input
Peek(s, i) == IF i <= Len(s) THEN s[i] ELSE -1

JsonBad == [ok |-> FALSE, i |-> 0, v |-> [t |-> "null"]]
JsonGood(i, v) == [ok |-> TRUE, i |-> i, v |-> v]

HexValue(c) ==
    IF c \in 48..57 THEN c - 48
    ELSE IF c \in 97..102 THEN c - 87
    ELSE IF c \in 65..70 THEN c - 55
    ELSE -1

\* the value of the four hex digits at i, -1 when they are not four hex digits
Hex4(s, i) ==
    IF i + 3 > Len(s) THEN -1
    ELSE IF \E k \in 0..3 : HexValue(s[i + k]) < 0 THEN -1
    ELSE HexValue(s[i]) * 4096 + HexValue(s[i + 1]) * 256
           + HexValue(s[i + 2]) * 16 + HexValue(s[i + 3])

\* the character an escape letter stands for, -1 for no escape letter
EscapeChar(e) ==
    IF e \in {34, 92, 47} THEN e
    ELSE IF e = 98 THEN 8
    ELSE IF e = 102 THEN 12
    ELSE IF e = 110 THEN 10
    ELSE IF e = 114 THEN 13
    ELSE IF e = 116 THEN 9
    ELSE -1

RECURSIVE ParseChars(_, _, _, _)

\* the \u escape at position i (the backslash) with the value h of its
\* four hex digits and the value l of the four hex digits of a \u escape
\* that follows it (-1 when there is none): a surrogate pair is one
\* character; a surrogate that is not half of a pair makes the string lone
ParseUnicode(s, i, acc, lone, h, l) ==
    IF h < 0 THEN JsonBad
    ELSE IF h \in 55296..56319 /\ l \in 56320..57343
         THEN ParseChars(s, i + 12,
                Append(acc, 65536 + (h - 55296) * 1024 + (l - 56320)), lone)
    ELSE IF h \in 55296..57343
         THEN ParseChars(s, i + 6, Append(acc, 65533), TRUE)
    ELSE ParseChars(s, i + 6, Append(acc, h), lone)

\* the escape at position i (the backslash) with escape letter e
ParseEscape(s, i, acc, lone, e) ==
    IF EscapeChar(e) >= 0
    THEN ParseChars(s, i + 2, Append(acc, EscapeChar(e)), lone)
    ELSE IF e # 117 THEN JsonBad
    ELSE ParseUnicode(s, i, acc, lone, Hex4(s, i + 2),
                      IF Peek(s, i + 6) = 92 /\ Peek(s, i + 7) = 117
                      THEN Hex4(s, i + 8) ELSE -1)

\* The characters of a string from position i (after the opening quote) to
\* the closing quote.  lone: the string has a \u escape of a surrogate that
\* is not half of a pair; such a string is an error where it is read as a
\* key or as a String, and is accepted where the value is ignored.
ParseChars(s, i, acc, lone) ==
    IF i > Len(s) THEN JsonBad
    ELSE IF s[i] = 34
         THEN JsonGood(i + 1, [t |-> "str", s |-> acc, lone |-> lone])
    ELSE IF s[i] < 32 THEN JsonBad
    ELSE IF s[i] = 92 THEN ParseEscape(s, i, acc, lone, Peek(s, i + 1))
    ELSE ParseChars(s, i + 1, Append(acc, s[i]), lone)

RECURSIVE DigitsEnd(_, _)
DigitsEnd(s, i) ==
    IF i <= Len(s) /\ s[i] \in 48..57 THEN DigitsEnd(s, i + 1) ELSE i

\* minus the number written by the digits at from..to-1, kept while it fits
\* an i32 (fits is FALSE once it is below i32::MIN)
RECURSIVE NegDigits(_, _, _, _)
NegDigits(s, from, to, acc) ==
    IF from >= to THEN [fits |-> TRUE, v |-> acc]
    ELSE IF acc < -214748364 \/ (acc = -214748364 /\ s[from] - 48 > 8)
         THEN [fits |-> FALSE, v |-> 0]
    ELSE NegDigits(s, from + 1, to, acc * 10 - (s[from] - 48))

\* the end of the integer part that starts at a: one 0, or digits
IntEnd(s, a) == IF Peek(s, a) = 48 THEN a + 1 ELSE DigitsEnd(s, a)

\* the end of the fraction, if one starts at b
FracEnd(s, b) == IF Peek(s, b) = 46 THEN DigitsEnd(s, b + 1) ELSE b

\* the first digit of the exponent whose letter is at c
ExpDigits(s, c) == IF Peek(s, c + 1) \in {43, 45} THEN c + 2 ELSE c + 1

\* the end of the exponent, if one starts at c
ExpEnd(s, c) ==
    IF Peek(s, c) \in {101, 69} THEN DigitsEnd(s, ExpDigits(s, c)) ELSE c

\* The number whose sign is neg and whose digits are n (as NegDigits gives
\* them): int says that it is read as an integer that fits an i32, which
\* -0, a number with a fraction or an exponent (plain) and a number out of
\* range are not; v is then its value.
NumberValue(neg, plain, n) ==
    IF /\ plain
       /\ n.fits
       /\ ~(neg /\ n.v = 0)
       /\ (neg \/ n.v > (-2147483647) - 1)
    THEN [t |-> "num", int |-> TRUE, v |-> IF neg THEN n.v ELSE -n.v]
    ELSE [t |-> "num", int |-> FALSE, v |-> 0]

\* the number with integer part a..b-1, fraction b..c-1, exponent c..e-1
NumberParts(s, neg, a, b, c, e) ==
    IF Peek(s, a) \notin 48..57 THEN JsonBad
    ELSE IF Peek(s, a) = 48 /\ Peek(s, a + 1) \in 48..57 THEN JsonBad
    ELSE IF c = b + 1 THEN JsonBad
    ELSE IF e > c /\ e = ExpDigits(s, c) THEN JsonBad
    ELSE JsonGood(e, NumberValue(neg, b = c /\ c = e, NegDigits(s, a, b, 0)))

NumberFrac(s, neg, a, b, c) == NumberParts(s, neg, a, b, c, ExpEnd(s, c))
NumberInt(s, neg, a, b) == NumberFrac(s, neg, a, b, FracEnd(s, b))
NumberFrom(s, neg, a) == NumberInt(s, neg, a, IntEnd(s, a))

\* a number at position i
ParseNumber(s, i) ==
    NumberFrom(s, Peek(s, i) = 45, IF Peek(s, i) = 45 THEN i + 1 ELSE i)

\* the literal lit stands at position i
Literal(s, i, lit) ==
    i + Len(lit) - 1 <= Len(s) /\ SubSeq(s, i, i + Len(lit) - 1) = lit

RECURSIVE ParseValue(_, _)
RECURSIVE ParseElements(_, _, _)
RECURSIVE ParseMembers(_, _, _)

\* after an element: a comma and the next element, or the closing bracket
ElementNext(s, j, acc) ==
    IF Peek(s, j) = 44 THEN ParseElements(s, j + 1, acc)
    ELSE IF Peek(s, j) = 93 THEN JsonGood(j + 1, [t |-> "arr", items |-> acc])
    ELSE JsonBad

\* the element r
ElementValue(s, r, acc) ==
    IF ~r.ok THEN JsonBad ELSE ElementNext(s, SkipWs(s, r.i), Append(acc, r.v))

\* the elements of an array from position i on, up to the closing bracket
ParseElements(s, i, acc) == ElementValue(s, ParseValue(s, i), acc)

\* after a member: a comma and the next member, or the closing brace
MemberNext(s, j, acc) ==
    IF Peek(s, j) = 44 THEN ParseMembers(s, SkipWs(s, j + 1), acc)
    ELSE IF Peek(s, j) = 125 THEN JsonGood(j + 1, [t |-> "obj", members |-> acc])
    ELSE JsonBad

\* the value r of the member with key key
MemberValue(s, key, r, acc) ==
    IF ~r.ok THEN JsonBad
    ELSE MemberNext(s, SkipWs(s, r.i), Append(acc, [k |-> key, v |-> r.v]))

\* the colon after the key
MemberColon(s, key, colon, acc) ==
    IF Peek(s, colon) # 58 THEN JsonBad
    ELSE MemberValue(s, key, ParseValue(s, colon + 1), acc)

\* the key k
MemberKey(s, k, acc) ==
    IF ~k.ok THEN JsonBad ELSE MemberColon(s, k.v, SkipWs(s, k.i), acc)

\* the members of an object from position i (a key) on, up to the closing
\* brace
ParseMembers(s, i, acc) ==
    IF Peek(s, i) # 34 THEN JsonBad
    ELSE MemberKey(s, ParseChars(s, i + 1, << >>, FALSE), acc)

\* an array or an object whose first element or member, or closing
\* bracket, is at j
ArrayFrom(s, j) ==
    IF Peek(s, j) = 93 THEN JsonGood(j + 1, [t |-> "arr", items |-> << >>])
    ELSE ParseElements(s, j, << >>)

ObjectFrom(s, j) ==
    IF Peek(s, j) = 125 THEN JsonGood(j + 1, [t |-> "obj", members |-> << >>])
    ELSE ParseMembers(s, j, << >>)

\* the value that starts at position i
ValueAt(s, i) ==
    IF Literal(s, i, << 110, 117, 108, 108 >>)
    THEN JsonGood(i + 4, [t |-> "null"])
    ELSE IF Literal(s, i, << 116, 114, 117, 101 >>)
    THEN JsonGood(i + 4, [t |-> "bool"])
    ELSE IF Literal(s, i, << 102, 97, 108, 115, 101 >>)
    THEN JsonGood(i + 5, [t |-> "bool"])
    ELSE IF Peek(s, i) = 34 THEN ParseChars(s, i + 1, << >>, FALSE)
    ELSE IF Peek(s, i) = 45 \/ Peek(s, i) \in 48..57 THEN ParseNumber(s, i)
    ELSE IF Peek(s, i) = 91 THEN ArrayFrom(s, SkipWs(s, i + 1))
    ELSE IF Peek(s, i) = 123 THEN ObjectFrom(s, SkipWs(s, i + 1))
    ELSE JsonBad

\* a value from position i on, after optional whitespace
ParseValue(s, i) == ValueAt(s, SkipWs(s, i))

\* the value r is followed by whitespace only
WholeText(s, r) == IF r.ok /\ SkipWs(s, r.i) > Len(s) THEN r ELSE JsonBad

\* a whole JSON text: one value, then only whitespace
ParseJson(s) == WholeText(s, ParseValue(s, 1))

\* the values of the members of an object whose key is name, in order
FieldValues(members, name) ==
    LET Named(m) == m.k.s = name
        found == SelectSeq(members, Named)
    IN  [n \in 1..Len(found) |-> found[n].v]

\* the n-th element of an array as a sequence of at most one value
ItemAt(items, n) == IF n <= Len(items) THEN << items[n] >> ELSE << >>

\* some key of the object is not a valid string
BadKey(members) == \E n \in 1..Len(members) : members[n].k.lone

\* a value read as a String
IsString(v) == v.t = "str" /\ ~v.lone

\* "result", "code", "message", "text"
KeyResult == << 114, 101, 115, 117, 108, 116 >>
KeyCode == << 99, 111, 100, 101 >>
KeyMessage == << 109, 101, 115, 115, 97, 103, 101 >>
KeyText == << 116, 101, 120, 116 >>

NotDeserialized == [ok |-> FALSE]

\* the text of SttResult from the values given for it
SttResultText(texts) ==
    IF Len(texts) > 1 THEN NotDeserialized
    ELSE IF texts = << >> THEN [ok |-> TRUE, text |-> << >>]
    ELSE IF IsString(texts[1]) THEN [ok |-> TRUE, text |-> texts[1].s]
    ELSE NotDeserialized

\* SttResult (stt.rs:54-58) from a value: an object with at most one member
\* text, a string, or the one-element array form of the struct; a missing
\* text is the empty string
SttResult(v) ==
    IF v.t = "obj"
    THEN IF BadKey(v.members) THEN NotDeserialized
         ELSE SttResultText(FieldValues(v.members, KeyText))
    ELSE IF v.t = "arr" THEN SttResultText(v.items)
    ELSE NotDeserialized

\* Option<SttResult> from the values given for result
SttResultOption(results) ==
    IF results = << >> THEN [ok |-> TRUE, v |-> None]
    ELSE IF results[1].t = "null" THEN [ok |-> TRUE, v |-> None]
    ELSE IF SttResult(results[1]).ok
         THEN [ok |-> TRUE, v |-> Some([text |-> SttResult(results[1]).text])]
    ELSE NotDeserialized

\* the three fields of SttResponse (stt.rs:44-52) from the values given for
\* them: a field given twice is an error; result is None when missing or
\* null, code is 0 and message is empty when missing
SttResponseFields(results, codes, messages) ==
    IF Len(results) > 1 \/ Len(codes) > 1 \/ Len(messages) > 1
    THEN NotDeserialized
    ELSE IF ~SttResultOption(results).ok THEN NotDeserialized
    ELSE IF codes # << >> /\ ~(codes[1].t = "num" /\ codes[1].int)
         THEN NotDeserialized
    ELSE IF messages # << >> /\ ~IsString(messages[1]) THEN NotDeserialized
    ELSE [ok |-> TRUE,
          result |-> SttResultOption(results).v,
          code |-> IF codes = << >> THEN 0 ELSE codes[1].v,
          message |-> IF messages = << >> THEN << >> ELSE messages[1].s]

\* SttResponse from a value: an object, or the array form of the struct
SttResponseOf(r) ==
    IF ~r.ok THEN NotDeserialized
    ELSE IF r.v.t = "obj"
    THEN IF BadKey(r.v.members) THEN NotDeserialized
         ELSE SttResponseFields(FieldValues(r.v.members, KeyResult),
                                FieldValues(r.v.members, KeyCode),
                                FieldValues(r.v.members, KeyMessage))
    ELSE IF r.v.t = "arr"
    THEN IF Len(r.v.items) > 3 THEN NotDeserialized
         ELSE SttResponseFields(ItemAt(r.v.items, 1), ItemAt(r.v.items, 2),
                                ItemAt(r.v.items, 3))
    ELSE NotDeserialized

\* serde_json::from_str::<SttResponse>(text): [ok |-> FALSE] for Err
SttResponse(text) == SttResponseOf(ParseJson(text))

\* ------------------------------------------------------------------------
\* tts_speak_stream (tts.rs:378-623)
\* ------------------------------------------------------------------------
VARIABLES
    config,        \* what get_volcengine_config returns to this call
    text,          \* argument text
    voice_type,    \* argument voice_type: Option<String>
    pc,            \* where the call stands
    resource_id,   \* local resource_id
    voice,         \* local voice
    session_id,    \* local session_id
    chunks,        \* local chunks
    index,         \* index of the chunk loop
    total_bytes,   \* local total_bytes
    sent,          \* frames handed to ws_write.send, in order
    emitted,       \* events handed to window.emit, in order
    result,        \* what the call returned, Running until it returns
    last,          \* the item ws_read.next() yielded last
    nrecv,         \* number of reads of the stream so far
    audio_bytes,   \* stt_transcribe: argument audio_bytes
    mime_type,     \* stt_transcribe: argument mime_type
    audio_path,    \* stt_ws_test: the first command-line argument
    request,       \* recognition: the serialized SttRequest
    transcript,    \* recognition: local transcript
    call,          \* a call of a codec function: its name and argument
    ret            \* what the call returned

vars == << config, text, voice_type, pc, resource_id, voice, session_id,
           chunks, index, total_bytes, sent, emitted, result, last, nrecv,
           audio_bytes, mime_type, audio_path, request, transcript, call, ret >>

locals == << resource_id, voice, session_id, chunks, index, total_bytes >>
inputs == << config, text, voice_type >>
stream == << last, nrecv >>
recognition == << audio_bytes, mime_type, audio_path, request, transcript >>
codec == << call, ret >>

\* no codec function is called on its own
NoCall == [op |-> "none", data |-> << >>]
NoReturn == [op |-> "none"]
NoCodecCall == call = NoCall /\ ret = NoReturn

\* the recognition path is not running
NoRecognition ==
    /\ audio_bytes = << >>
    /\ mime_type = << >>
    /\ audio_path = None
    /\ request = << >>
    /\ transcript = << >>

\* the synthesis path is not running
NoSynthesis ==
    /\ text = << >>
    /\ voice_type = None
    /\ voice = << >>
    /\ session_id = << >>
    /\ chunks = << >>
    /\ index = 0
    /\ total_bytes = 0
    /\ emitted = << >>

\* tts_speak_stream is called with text and voice_type
SynthesisInit ==
    /\ \/ config \in GoodConfigs /\ text \in Texts /\ voice_type \in VoiceTypes
       \/ config \in BadConfigs /\ text = TextTwoChunks /\ voice_type = None
       \/ config = ConfigBoth /\ text = << 72, 105 >> /\ voice_type = None
    /\ pc = "start"
    /\ resource_id = << >>
    /\ voice = << >>
    /\ session_id = << >>
    /\ chunks = << >>
    /\ index = 0
    /\ total_bytes = 0
    /\ sent = << >>
    /\ emitted = << >>
    /\ result = Running
    /\ last = Item("Nothing", << >>)
    /\ nrecv = 0
    /\ NoRecognition

Init == SynthesisInit /\ NoCodecCall

\* the call returns r
Returns(r) == result' = r /\ pc' = "done"

\* ws_read.next().await yields m
Yields(m) ==
    /\ m \in (IF last.kind = "End" \/ nrecv >= MaxInbound THEN {EndItem} ELSE Items)
    /\ last' = m
    /\ nrecv' = nrecv + 1

\* Faulty variant of ResourceId: the legacy resource id is preferred.
ResourceId_legacy_first(c) ==
    IF c.legacy_resource_id.some /\ c.legacy_resource_id.v # << >>
    THEN c.legacy_resource_id.v
    ELSE c.tts.resource_id

\* tts.rs:414-421
ResourceId(c) ==
    IF c.tts.resource_id # << >> THEN c.tts.resource_id
    ELSE IF c.legacy_resource_id.some THEN c.legacy_resource_id.v
    ELSE << >>

\* tts.rs:383-461: configuration, window, credentials, ids, request headers
Prepare ==
    /\ pc = "start"
    /\ UNCHANGED << recognition, codec, inputs, stream, sent, chunks, index, total_bytes >>
    /\ IF ~config.ok
       THEN /\ IF config.panics THEN pc' = "panicked" /\ UNCHANGED result
               ELSE Returns(Failure(config.err))
            /\ UNCHANGED << emitted, resource_id, voice, session_id >>
       ELSE \E has_window \in BOOLEAN :
            LET c == config.v
                rid == ResourceId(c)
                m1 == Msg("configure the Volcengine API first")
                m2 == Msg("configure the TTS resource id first")
            IN  IF ~has_window
                THEN /\ Returns(Failure(Msg("Window not found")))
                     /\ UNCHANGED << emitted, resource_id, voice, session_id >>
                ELSE IF c.app_id = << >> \/ c.access_token = << >>
                THEN /\ emitted' = Append(emitted, Emit("tts-stream-error", m1))
                     /\ Returns(Failure(m1))
                     /\ UNCHANGED << resource_id, voice, session_id >>
                ELSE IF rid = << >>
                THEN /\ emitted' = Append(emitted, Emit("tts-stream-error", m2))
                     /\ Returns(Failure(m2))
                     /\ resource_id' = rid
                     /\ UNCHANGED << voice, session_id >>
                ELSE /\ resource_id' = rid
                     /\ voice' = IF voice_type.some THEN voice_type.v
                                 ELSE c.tts.voice_type
                     /\ session_id' \in SessionIds
                     /\ UNCHANGED emitted
                     /\ IF ~ValidHeaderValue(c.app_id)
                        THEN Returns(Failure(Msg("Invalid X-Api-App-Key header")))
                        ELSE IF ~ValidHeaderValue(c.access_token)
                        THEN Returns(Failure(Msg("Invalid X-Api-Access-Key header")))
                        ELSE IF ~ValidHeaderValue(rid)
                        THEN Returns(Failure(Msg("Invalid X-Api-Resource-Id header")))
                        ELSE pc' = "connect" /\ UNCHANGED result

\* tts.rs:463-471: connect_async
Connect ==
    /\ pc = "connect"
    /\ UNCHANGED << recognition, codec, inputs, stream, locals, sent, emitted >>
    /\ \E connected \in BOOLEAN :
         IF connected
         THEN pc' = "send_start_connection" /\ UNCHANGED result
         ELSE Returns(Failure(Msg("WebSocket connect failed")))

\* Faulty variant of Send: a failed send is tried again.
Send_retried(frame, delivered, next_pc, error_text) ==
    /\ sent' = Append(sent, frame)
    /\ IF delivered
       THEN pc' = next_pc /\ UNCHANGED result
       ELSE UNCHANGED << pc, result >>

\* ws_write.send(Message::Binary(frame)).await.map_err(..)?  The frame is
\* handed to the socket; delivered says whether the send succeeded.
Send(frame, delivered, next_pc, error_text) ==
    /\ sent' = Append(sent, frame)
    /\ IF delivered
       THEN pc' = next_pc /\ UNCHANGED result
       ELSE Returns(Failure(Msg(error_text)))

\* wait_for_event(&mut ws_read, target_event).await?
Await(target_event, next_pc) ==
    \E m \in Items :
      /\ Yields(m)
      /\ LET o == wait_for_event(m, target_event)
         IN  IF ~o.done THEN UNCHANGED << pc, result >>
             ELSE IF o.res = Success THEN pc' = next_pc /\ UNCHANGED result
             ELSE Returns(o.res)

\* tts.rs:473-477
SendStartConnection ==
    /\ pc = "send_start_connection"
    /\ UNCHANGED << recognition, codec, inputs, stream, locals, emitted >>
    /\ \E delivered \in BOOLEAN :
         Send(build_full_client_frame(EVENT_START_CONNECTION, None, EmptyJson),
              delivered, "wait_connection_started", "send StartConnection failed")

\* tts.rs:478
AwaitConnectionStarted ==
    /\ pc = "wait_connection_started"
    /\ UNCHANGED << recognition, codec, inputs, locals, sent, emitted >>
    /\ Await(EVENT_CONNECTION_STARTED, "send_start_session")

\* tts.rs:480-499
SendStartSession ==
    /\ pc = "send_start_session"
    /\ UNCHANGED << recognition, codec, inputs, stream, locals, emitted >>
    /\ \E delivered \in BOOLEAN :
         Send(build_full_client_frame(EVENT_START_SESSION, Some(session_id),
                                      SessionPayload(voice)),
              delivered, "wait_session_started", "send StartSession failed")

\* tts.rs:500
AwaitSessionStarted ==
    /\ pc = "wait_session_started"
    /\ UNCHANGED << recognition, codec, inputs, locals, sent, emitted >>
    /\ Await(EVENT_SESSION_STARTED, "split")

\* Faulty variant of SplitChunks: a text without chunks is not rejected.
SplitChunks_unchecked ==
    /\ pc = "split"
    /\ UNCHANGED << recognition, codec, inputs, stream, resource_id, voice, session_id, index,
                    total_bytes, sent, emitted, result >>
    /\ chunks' = split_tts_text(text)
    /\ pc' = IF chunks' = << >> THEN "send_finish_session" ELSE "send_task"

\* tts.rs:502-505
SplitChunks ==
    /\ pc = "split"
    /\ UNCHANGED << recognition, codec, inputs, stream, resource_id, voice, session_id, index,
                    total_bytes, sent, emitted >>
    /\ chunks' = split_tts_text(text)
    /\ IF chunks' = << >>
       THEN Returns(Failure(Msg("text to synthesize is empty")))
       ELSE pc' = "send_task" /\ UNCHANGED result

\* Faulty variant of SendTaskRequest: every turn sends the first chunk.
SendTaskRequest_first_chunk ==
    /\ pc = "send_task"
    /\ index < Len(chunks)
    /\ UNCHANGED << recognition, codec, inputs, stream, resource_id, voice, session_id, chunks,
                    total_bytes, emitted >>
    /\ index' = index + 1
    /\ \E delivered \in BOOLEAN :
         Send(build_full_client_frame(EVENT_TASK_REQUEST, Some(session_id),
                                      TaskPayload(chunks[1])),
              delivered,
              IF index + 1 < Len(chunks) THEN "send_task" ELSE "send_finish_session",
              "send TaskRequest failed")

\* tts.rs:507-527: one turn of the chunk loop
SendTaskRequest ==
    /\ pc = "send_task"
    /\ index < Len(chunks)
    /\ UNCHANGED << recognition, codec, inputs, stream, resource_id, voice, session_id, chunks,
                    total_bytes, emitted >>
    /\ index' = index + 1
    /\ \E delivered \in BOOLEAN :
         Send(build_full_client_frame(EVENT_TASK_REQUEST, Some(session_id),
                                      TaskPayload(chunks[index + 1])),
              delivered,
              IF index + 1 < Len(chunks) THEN "send_task" ELSE "send_finish_session",
              "send TaskRequest failed")

\* tts.rs:529-536
SendFinishSession ==
    /\ pc = "send_finish_session"
    /\ UNCHANGED << recognition, codec, inputs, stream, resource_id, voice, session_id, chunks,
                    index, emitted >>
    /\ total_bytes' = 0
    /\ \E delivered \in BOOLEAN :
         Send(build_full_client_frame(EVENT_FINISH_SESSION, Some(session_id),
                                      EmptyJson),
              delivered, "collect", "send FinishSession failed")

\* tts.rs:538-608: one turn of the audio-collection loop
CollectAudio ==
    /\ pc = "collect"
    /\ UNCHANGED << recognition, codec, inputs, resource_id, voice, session_id, chunks, index, sent >>
    /\ \E m \in Items :
         /\ Yields(m)
         /\ LET t == collect_audio(m, total_bytes)
            IN  /\ emitted' = emitted \o t.emits
                /\ total_bytes' = t.total_bytes
                /\ IF t.ctl = "return" THEN Returns(t.res)
                   ELSE /\ pc' = IF t.ctl = "break" THEN "send_finish_connection"
                                 ELSE "collect"
                        /\ UNCHANGED result

\* tts.rs:610-611: the result of the send is dropped
SendFinishConnection ==
    /\ pc = "send_finish_connection"
    /\ UNCHANGED << recognition, codec, inputs, stream, locals, emitted, result >>
    /\ \E delivered \in BOOLEAN :
         /\ sent' = Append(sent, build_full_client_frame(EVENT_FINISH_CONNECTION,
                                                         None, EmptyJson))
         /\ pc' = "wait_connection_finished"

\* Faulty variant of AwaitConnectionFinished: a failed wait fails the call.
AwaitConnectionFinished_escalated ==
    /\ pc = "wait_connection_finished"
    /\ UNCHANGED << recognition, codec, inputs, locals, sent, emitted >>
    /\ Await(EVENT_CONNECTION_FINISHED, "finish")

\* tts.rs:612: the result of the wait is dropped
AwaitConnectionFinished ==
    /\ pc = "wait_connection_finished"
    /\ UNCHANGED << recognition, codec, inputs, locals, sent, emitted, result >>
    /\ \E m \in Items :
         /\ Yields(m)
         /\ pc' = IF wait_for_event(m, EVENT_CONNECTION_FINISHED).done
                  THEN "finish" ELSE "wait_connection_finished"

\* Faulty variant of Finish: the call returns without the finished event.
Finish_silent ==
    /\ pc = "finish"
    /\ UNCHANGED << recognition, codec, inputs, stream, locals, sent, emitted >>
    /\ Returns(Success)

\* tts.rs:614-622
Finish ==
    /\ pc = "finish"
    /\ UNCHANGED << recognition, codec, inputs, stream, locals, sent >>
    /\ emitted' = Append(emitted, Emit("tts-stream-finished", total_bytes))
    /\ Returns(Success)

Next ==
    \/ Prepare
    \/ Connect
    \/ SendStartConnection
    \/ AwaitConnectionStarted
    \/ SendStartSession
    \/ AwaitSessionStarted
    \/ SplitChunks
    \/ SendTaskRequest
    \/ SendFinishSession
    \/ CollectAudio
    \/ SendFinishConnection
    \/ AwaitConnectionFinished
    \/ Finish

Spec == Init /\ [][Next]_vars

\* ------------------------------------------------------------------------
\* Properties of the synthesis session
\* ------------------------------------------------------------------------
\* the event code of an outbound frame (bytes 4..8)
FrameEvent(f) == I32FromBeBytes(f, 4)

\* the event codes of the frames sent so far
SentEvents == { FrameEvent(sent[i]) : i \in 1..Len(sent) }

\* the step reads the stream
ReadStep == nrecv' = nrecv + 1

\* the step sends a frame with event code e
SendsEvent(e) == Len(sent') = Len(sent) + 1 /\ FrameEvent(sent'[Len(sent')]) = e

\* item m is a binary message that decodes to a frame
Decodes(m) == m.kind = "Binary" /\ parse_frame(m.data).ok

\* item m is a binary message whose message_type nibble is the error code
IsErrorType(m) ==
    m.kind = "Binary" /\ Len(m.data) >= 4
      /\ HighNibble(At(m.data, 1)) = MSG_TYPE_ERROR

\* item m is a decoded frame that carries event code e
CarriesEvent(m, e) ==
    /\ Decodes(m)
    /\ parse_frame(m.data).frame.event = Some(e)

\* the chunk events among the window events es
IsChunk(e) == e.name = "tts-stream-chunk"
ChunkEvents(es) == SelectSeq(es, IsChunk)

IsFinished(e) == e.name = "tts-stream-finished"

\* C1: StartSession (event 100) is sent only when an inbound frame with
\* event 50 has been received, and TaskRequest (200) and FinishSession (102)
\* only when an inbound frame with event 150 has been received: at each such
\* send the item read last from the stream is a frame with that event.
C1_PrerequisiteObserved ==
    [][ /\ SendsEvent(EVENT_START_SESSION)
          => CarriesEvent(last, EVENT_CONNECTION_STARTED)
        /\ (SendsEvent(EVENT_TASK_REQUEST) \/ SendsEvent(EVENT_FINISH_SESSION))
          => CarriesEvent(last, EVENT_SESSION_STARTED) ]_vars

\* C1 witness: FinishSession has been sent after StartSession and one TaskRequest
C1_Witness ==
    /\ Len(sent) = 4
    /\ FrameEvent(sent[2]) = EVENT_START_SESSION
    /\ FrameEvent(sent[3]) = EVENT_TASK_REQUEST
    /\ FrameEvent(sent[4]) = EVENT_FINISH_SESSION

\* the 14 bytes of a frame with event code e, no session id, payload "{}"
ConnectionFrame(e) ==
    << 17, 20, 16, 0 >> \o I32ToBeBytes(e) \o << 0, 0, 0, 2, 123, 125 >>

\* frame f is: header, event e, length-prefixed id, length-prefixed payload
IsSessionFrame(f, e, id, payload) ==
    /\ Len(f) = 16 + Len(id) + Len(payload)
    /\ Slice(f, 0, 4) = << 17, 20, 16, 0 >>
    /\ FrameEvent(f) = e
    /\ U32FromBeBytes(f, 8) = Len(id)
    /\ Slice(f, 12, 12 + Len(id)) = id
    /\ U32FromBeBytes(f, 12 + Len(id)) = Len(payload)
    /\ Slice(f, 16 + Len(id), Len(f)) = payload

\* C2: when the call returns success the outbound frames are, in order, one
\* event 1 without session id, one event 100, one event 200 per chunk of
\* the text in chunk order (at least one), one event 102, one event 2
\* without session id; 100, 200 and 102 carry the same session id.
C2_OutboundSequence ==
    result = Success =>
      LET cs == split_tts_text(text)
          n == Len(cs)
      IN  /\ n >= 1
          /\ Len(sent) = n + 4
          /\ sent[1] = ConnectionFrame(EVENT_START_CONNECTION)
          /\ IsSessionFrame(sent[2], EVENT_START_SESSION, session_id,
                            SessionPayload(voice))
          /\ \A i \in 1..n :
               IsSessionFrame(sent[2 + i], EVENT_TASK_REQUEST, session_id,
                              TaskPayload(cs[i]))
          /\ IsSessionFrame(sent[n + 3], EVENT_FINISH_SESSION, session_id,
                            EmptyJson)
          /\ sent[n + 4] = ConnectionFrame(EVENT_FINISH_CONNECTION)

\* C2 witness: a successful call whose text has two chunks
C2_Witness == result = Success /\ Len(chunks) = 2 /\ Len(sent) = 6

\* an inbound failure: the call failed on what it read from the stream
InboundFailure ==
    /\ result.state = "err"
    /\ result.message.text \in
         { "TTS connection ended", "TTS connection closed", "receive failed",
           "TTS service error", "TTS returned text message", "Frame too short",
           "Invalid header size", "Missing event field", "Missing error code",
           "Invalid id length" }

\* C3: whenever the session fails after the connection was opened, on an
\* error frame, a decode error, a receive error, a Close or the end of the
\* stream while awaiting event 50 or 150, or a failure in the collection
\* loop, FinishConnection (event 2) has been sent before the call returns.
C3_ClosingHandshakeAfterFailure ==
    InboundFailure => EVENT_FINISH_CONNECTION \in SentEvents

\* the call is awaiting event 50 or 150, or collecting audio
InSession ==
    pc \in {"wait_connection_started", "wait_session_started", "collect"}

\* the call has returned: nothing is read, sent or emitted any more
Returned == pc = "done" => UNCHANGED vars

\* C4: while awaiting event 50 or 150 or collecting audio, reading a frame
\* whose message_type is 0xF fails the call in that step: it returns an
\* error (carrying the decoded text of the frame's payload when the frame
\* decodes), no chunk event is emitted, no frame is sent, and after the
\* return nothing further is read, emitted or sent.
C4_ErrorFrameFatal ==
    [][ /\ (InSession /\ ReadStep /\ IsErrorType(last'))
          => /\ pc' = "done"
             /\ result'.state = "err"
             /\ Decodes(last') =>
                  result'.message =
                    MsgWith("TTS service error",
                            from_utf8_lossy(parse_frame(last'.data).frame.payload))
             /\ sent' = sent
             /\ ChunkEvents(emitted') = ChunkEvents(emitted)
        /\ Returned ]_vars

\* C4 witness: the call failed on the error frame that carries event 50,
\* read while awaiting event 50; its text is "x", U+FFFD, "y"
C4_Witness ==
    /\ pc = "done"
    /\ last = Item("Binary", ErrorFrame50)
    /\ Len(sent) = 1
    /\ result = Failure(MsgWith("TTS service error", << 120, 65533, 121 >>))

\* item m is a decoded frame, not an error frame, that does not carry e
OtherFrame(m, e) ==
    /\ Decodes(m)
    /\ ~IsErrorType(m)
    /\ ~CarriesEvent(m, e)

\* C5: while awaiting event 50 or 150, the end of the stream or a Close
\* frame fails the call, and no StartSession, TaskRequest or FinishSession
\* is sent afterwards; a frame that carries another event code, or none,
\* is skipped: the call goes on awaiting the same event.
C5_HandshakeWait ==
    [][ /\ ( /\ pc \in {"wait_connection_started", "wait_session_started"}
             /\ ReadStep
             /\ last'.kind \in {"End", "Close"} )
          => pc' = "done" /\ result'.state = "err" /\ sent' = sent
        /\ ( /\ pc = "wait_connection_started"
             /\ ReadStep
             /\ OtherFrame(last', EVENT_CONNECTION_STARTED) )
          => pc' = pc /\ result' = Running /\ sent' = sent
        /\ ( /\ pc = "wait_session_started"
             /\ ReadStep
             /\ OtherFrame(last', EVENT_SESSION_STARTED) )
          => pc' = pc /\ result' = Running /\ sent' = sent
        /\ Returned ]_vars

\* C5 witness: the call failed on a Close frame while awaiting event 150,
\* after having skipped a frame (three reads: event 50, a skipped frame,
\* Close)
C5_Witness ==
    /\ pc = "done"
    /\ result = Failure(Msg("TTS connection closed"))
    /\ Len(sent) = 2
    /\ nrecv = 3

\* the closing part of the call, after the collection loop
Closing == pc \in {"send_finish_connection", "wait_connection_finished", "finish"}

\* C6: after FinishSession, a Close frame or the end of the stream read by
\* the collection loop ends the loop as normal termination; from there
\* FinishConnection (event 2) is sent and the call can only return success,
\* with the audio collected so far.
C6_MissingSessionFinishedTolerated ==
    [][ /\ (pc = "collect" /\ ReadStep /\ last'.kind \in {"End", "Close"})
          => /\ pc' = "send_finish_connection"
             /\ result' = Running
             /\ emitted' = emitted
             /\ total_bytes' = total_bytes
        /\ pc = "send_finish_connection"
          => /\ SendsEvent(EVENT_FINISH_CONNECTION)
             /\ pc' = "wait_connection_finished"
        /\ Closing
          => /\ total_bytes' = total_bytes
             /\ ChunkEvents(emitted') = ChunkEvents(emitted)
             /\ \/ Closing' /\ result' = Running
                \/ /\ pc' = "done"
                   /\ result' = Success
                   /\ emitted' =
                        Append(emitted, Emit("tts-stream-finished", total_bytes)) ]_vars

\* C6 witness: a Close frame ended the collection loop after one chunk and
\* before any event 152 (reads: 50, 150, audio, Close), and FinishConnection
\* was sent next
C6_Witness ==
    /\ pc = "wait_connection_finished"
    /\ last.kind = "Close"
    /\ nrecv = 4
    /\ Len(emitted) = 1
    /\ FrameEvent(sent[Len(sent)]) = EVENT_FINISH_CONNECTION

\* C7: once the collection loop reads a frame that carries event 152, the
\* loop ends: the frame and every later frame produce no chunk event and add
\* nothing to the total, and the next outbound frame is FinishConnection.
C7_SessionFinishedEndsLoop ==
    [][ (/\ pc = "collect"
         /\ ReadStep
         /\ CarriesEvent(last', EVENT_SESSION_FINISHED)
         /\ ~IsErrorType(last'))
          => /\ pc' = "send_finish_connection"
             /\ emitted' = emitted
             /\ total_bytes' = total_bytes ]_vars

\* item m is an audio frame of the collection loop: a decoded frame, not an
\* error frame, that carries event 352 or is an audio-only response without
\* event field
IsAudioFrame(m) ==
    /\ Decodes(m)
    /\ ~IsErrorType(m)
    /\ LET f == parse_frame(m.data).frame
       IN  \/ f.event = Some(EVENT_TTS_RESPONSE)
           \/ (f.message_type = MSG_TYPE_AUDIO_ONLY_RESPONSE /\ ~f.event.some)

\* the payload of a server frame with a 4-byte header: after the event
\* field if the has-event flag is set, the length-prefixed id, then the
\* length-prefixed payload
ServerPayload(data) ==
    LET o1 == IF HasFlag(LowNibble(At(data, 1)), 4) THEN 8 ELSE 4
        o2 == o1 + 4 + U32FromBeBytes(data, o1)
    IN  Slice(data, o2 + 4, o2 + 4 + U32FromBeBytes(data, o2))

\* C8: in the collection loop both forms of audio frame are one signal: a
\* frame with event 352 or an audio-only response without event field
\* appends exactly one chunk event with exactly the frame's payload when
\* the payload is not empty, and no event when it is empty; earlier events
\* keep their place, so chunks are emitted in arrival order.
C8_AudioFormsEquivalent ==
    [][ (pc = "collect" /\ ReadStep /\ IsAudioFrame(last'))
          => /\ pc' = "collect"
             /\ emitted' =
                  IF ServerPayload(last'.data) # << >>
                  THEN Append(emitted,
                              Emit("tts-stream-chunk", ServerPayload(last'.data)))
                  ELSE emitted ]_vars

\* C8 witness: an audio-only response without event, then an event 352
\* frame, then the two empty forms: two chunk events in arrival order
C8_Witness ==
    /\ pc = "collect"
    /\ nrecv = 5
    /\ last = Item("Binary", AudioOnlyEmpty)
    /\ emitted = << Emit("tts-stream-chunk", << 3 >>),
                    Emit("tts-stream-chunk", << 1, 2 >>) >>

\* the number of finished events among the window events
FinishedCount == Len(SelectSeq(emitted, IsFinished))

\* C9: a completed call has one outcome: success with exactly one finished
\* event, emitted after every chunk event, or an error with no finished
\* event; while the call runs no finished event has been emitted, so none
\* is ever followed by a chunk event or by an error.
C9_SingleOutcome ==
    /\ pc = "done" <=> result # Running
    /\ result = Success
         => /\ FinishedCount = 1
            /\ IsFinished(emitted[Len(emitted)])
    /\ result # Success => FinishedCount = 0

\* C9 witness: a successful call that emitted a chunk, then finished
C9_Witness ==
    /\ result = Success
    /\ Len(emitted) = 2
    /\ IsChunk(emitted[1])
    /\ IsFinished(emitted[2])

\* the sum of the payload lengths of the chunk events among es
RECURSIVE ChunkBytes(_)
ChunkBytes(es) ==
    IF es = << >> THEN 0
    ELSE (IF IsChunk(Head(es)) THEN Len(Head(es).payload) ELSE 0)
           + ChunkBytes(Tail(es))

\* C10: the running total is the sum of the payload lengths of the chunk
\* events emitted so far, it never decreases, it changes only in a step
\* that emits a chunk event, and the finished event reports that sum.
C10_TotalBytes ==
    [][ /\ total_bytes' = ChunkBytes(emitted')
        /\ total_bytes' >= total_bytes
        /\ total_bytes' # total_bytes
             => Len(ChunkEvents(emitted')) = Len(ChunkEvents(emitted)) + 1
        /\ (emitted' # emitted /\ IsFinished(emitted'[Len(emitted')]))
             => emitted'[Len(emitted')].payload = ChunkBytes(emitted) ]_vars

\* C10 witness: a successful call that reported 6 bytes for three chunks
C10_Witness ==
    /\ result = Success
    /\ Len(ChunkEvents(emitted)) = 3
    /\ emitted[Len(emitted)] = Emit("tts-stream-finished", 6)

\* ------------------------------------------------------------------------
\* Recognition path: inputs of a call and of its socket
\* ------------------------------------------------------------------------
SttResource == << 115, 116, 116 >>

\* what get_volcengine_config returns to stt_transcribe
SttGoodConfigs ==
    { ConfigOk(WithStt(VolcengineConfig(AppId, Token, None, << >>), SttResource)),
      ConfigOk(VolcengineConfig(AppId, Token, Some(LegacyResource), TtsResource)) }

SttBadConfigs ==
    ConfigErrors \cup
    { ConfigOk(WithStt(VolcengineConfig(AppIdLineFeed, Token, None, << >>),
                       SttResource)),
      ConfigOk(WithStt(VolcengineConfig(AppId, TokenDel, None, << >>),
                       SttResource)),
      ConfigOk(WithStt(VolcengineConfig(AppId, Token, None, << >>),
                       ResourceCr)),
      ConfigOk(VolcengineConfig(AppId, Token, Some(LegacyNul), << >>)),
      ConfigOk(WithStt(VolcengineConfig(AppId, TokenTab, None, << >>),
                       SttResource)),
      ConfigOk(WithStt(VolcengineConfig(<< >>, Token, None, << >>), SttResource)),
      ConfigOk(WithStt(VolcengineConfig(AppId, << >>, None, << >>), SttResource)),
      ConfigOk(VolcengineConfig(AppId, Token, None, TtsResource)),
      ConfigOk(VolcengineConfig(AppId, Token, Some(<< >>), TtsResource)) }

\* "audio/webm;codecs=opus"
MimeWebm == << 97, 117, 100, 105, 111, 47, 119, 101, 98, 109, 59, 99, 111, 100, 101,
    99, 115, 61, 111, 112, 117, 115 >>
\* "Audio/WAV"
MimeWav == << 65, 117, 100, 105, 111, 47, 87, 65, 86 >>
\* "text/plain"
MimePlain == << 116, 101, 120, 116, 47, 112, 108, 97, 105, 110 >>

\* the mime_type argument: three supported values and an unsupported one
\* "\u039f\u03a3" (capital omicron, capital sigma)
MimeGreek == << 927, 931 >>
MimeTypes == { << >>, MimeWebm, MimeWav, MimePlain, MimeGreek }

\* the audio_bytes argument, or the content of the audio file
AudioInputs == { << >>, << 1, 2, 3 >> }

\* the texts of inbound messages
\* {"result":{"text":"hi"}}
ReplyHi ==
    << 123, 34, 114, 101, 115, 117, 108, 116, 34, 58, 123, 34, 116, 101, 120,
    116, 34, 58, 34, 104, 105, 34, 125, 125 >>
\* {"code":0,"message":"","result":{"text":"bye"}}
ReplyBye ==
    << 123, 34, 99, 111, 100, 101, 34, 58, 48, 44, 34, 109, 101, 115, 115, 97,
    103, 101, 34, 58, 34, 34, 44, 34, 114, 101, 115, 117, 108, 116, 34, 58,
    123, 34, 116, 101, 120, 116, 34, 58, 34, 98, 121, 101, 34, 125, 125 >>
\* {"result":{"text":""}}
ReplyEmptyText ==
    << 123, 34, 114, 101, 115, 117, 108, 116, 34, 58, 123, 34, 116, 101, 120,
    116, 34, 58, 34, 34, 125, 125 >>
\* {"result":{}}
ReplyNoText ==
    << 123, 34, 114, 101, 115, 117, 108, 116, 34, 58, 123, 125, 125 >>
\* {"code":0}
ReplyNoResult ==
    << 123, 34, 99, 111, 100, 101, 34, 58, 48, 125 >>
\* {"code":1013,"message":"bad"}
ReplyFailed ==
    << 123, 34, 99, 111, 100, 101, 34, 58, 49, 48, 49, 51, 44, 34, 109, 101,
    115, 115, 97, 103, 101, 34, 58, 34, 98, 97, 100, 34, 125 >>
\* {"code":7,"message":"late","result":{"text":"no"}}
ReplyFailedWithResult ==
    << 123, 34, 99, 111, 100, 101, 34, 58, 55, 44, 34, 109, 101, 115, 115, 97,
    103, 101, 34, 58, 34, 108, 97, 116, 101, 34, 44, 34, 114, 101, 115, 117,
    108, 116, 34, 58, 123, 34, 116, 101, 120, 116, 34, 58, 34, 110, 111, 34,
    125, 125 >>
\* {"code":1,"message":null}
ReplyIllTyped ==
    << 123, 34, 99, 111, 100, 101, 34, 58, 49, 44, 34, 109, 101, 115, 115, 97,
    103, 101, 34, 58, 110, 117, 108, 108, 125 >>
\* hi
ReplyNotJson ==
    << 104, 105 >>

ReplyTexts ==
    { ReplyHi, ReplyBye, ReplyEmptyText, ReplyNoText, ReplyNoResult, ReplyFailed,
      ReplyFailedWithResult, ReplyIllTyped, ReplyNotJson }

\* a server frame of the simple protocol: a 4-byte header, the 4-byte
\* sequence number, the 4-byte payload length, the payload
ServerFrame(message_type, serialization, compression, payload) ==
    << 17, PackNibbles(message_type, 0), PackNibbles(serialization, compression),
       0 >>
    \o << 0, 0, 0, 1 >> \o U32ToBeBytes(Len(payload)) \o payload

\* full server responses (message type 9, JSON) that carry a reply text
ResponseFrames ==
    { ServerFrame(9, 1, 0, Utf8(t)) :
        t \in { ReplyHi, ReplyEmptyText, ReplyFailed, ReplyNoResult } }

\* error response with the text "no"
ErrorResponse == ServerFrame(15, 1, 0, << 110, 111 >>)
\* a response that declares gzip compression
CompressedResponse == ServerFrame(9, 1, 1, Utf8(ReplyHi))
\* a response cut after 8 bytes, and one cut inside its payload
ShortResponse == SubSeq(ServerFrame(9, 1, 0, Utf8(ReplyHi)), 1, 8)
CutResponse == SubSeq(ServerFrame(9, 1, 0, Utf8(ReplyHi)), 1, 20)

Replies ==
    { Item("Text", t) : t \in ReplyTexts }
      \cup { Item("Binary", f) : f \in ResponseFrames }
      \cup { Item("Binary", ErrorResponse), Item("Binary", CompressedResponse),
             Item("Binary", ShortResponse), Item("Binary", CutResponse),
             Item("Close", << >>), Item("Other", << >>), Item("Error", << >>),
             EndItem }

\* timeout_at(deadline, read.next()) of the test program also yields
\* Err(Elapsed) when the deadline passes first
TimeoutItem == Item("Timeout", << >>)
TestReplies == Replies \cup { TimeoutItem }

\* Ok(transcript)
OkText(t) == [state |-> "ok", message |-> Msg(""), text |-> t]

\* ------------------------------------------------------------------------
\* The read loop of the recognition path (stt.rs:260-294,
\* stt_ws_test.rs:303-344): what one turn does with the item the stream
\* yields.  ctl is "continue", "break" or "return" (the call returns res).
\* ------------------------------------------------------------------------
Step(ctl, t, res) == [ctl |-> ctl, transcript |-> t, res |-> res]

\* Faulty variant of respond: the status code of a response is not looked
\* at.
respond_ignore_code(reply, transcript_now, error_text) ==
    LET response == SttResponse(reply)
    IN  IF ~response.ok THEN Step("continue", transcript_now, Running)
        ELSE IF response.result.some
             THEN Step("continue", response.result.v.text, Running)
        ELSE Step("continue", transcript_now, Running)

\* stt.rs:263-270 and 275-282 (stt_ws_test.rs:306-315 and 320-329): reply,
\* the text of a message or of a decoded binary payload, read as SttResponse;
\* error_text is the fixed part of the error message
respond(reply, transcript_now, error_text) ==
    LET response == SttResponse(reply)
    IN  IF ~response.ok THEN Step("continue", transcript_now, Running)
        ELSE IF response.code # 0
             THEN Step("return", transcript_now,
                       Failure(MsgWith(error_text, response.message)))
        ELSE IF response.result.some
             THEN Step("continue", response.result.v.text, Running)
        ELSE Step("continue", transcript_now, Running)

\* stt.rs:260-294; the while let loop ends when the stream ends
recognize(message, transcript_now) ==
    IF message.kind = "End" THEN Step("break", transcript_now, Running)
    ELSE IF message.kind = "Text"
         THEN respond(message.data, transcript_now, "recognition failed")
    ELSE IF message.kind = "Binary"
         THEN LET parsed == parse_server_payload(message.data)
              IN  IF ~parsed.ok
                  THEN Step("return", transcript_now, Failure(parsed.err))
                  ELSE IF parsed.frame.some
                  THEN respond(parsed.frame.v, transcript_now, "recognition failed")
                  ELSE Step("continue", transcript_now, Running)
    ELSE IF message.kind = "Close" THEN Step("break", transcript_now, Running)
    ELSE IF message.kind = "Error"
         THEN Step("return", transcript_now, Failure(Msg("receive failed")))
    ELSE Step("continue", transcript_now, Running)

\* Faulty variant of recognize_with_deadline: the deadline is an error.
recognize_deadline_fatal(message, transcript_now) ==
    IF message.kind = "Text"
    THEN respond(message.data, transcript_now, "Recognition error")
    ELSE IF message.kind = "Binary"
         THEN LET parsed == parse_server_payload(message.data)
              IN  IF ~parsed.ok
                  THEN Step("return", transcript_now, Failure(parsed.err))
                  ELSE IF parsed.frame.some
                  THEN respond(parsed.frame.v, transcript_now, "Recognition error")
                  ELSE Step("continue", transcript_now, Running)
    ELSE IF message.kind = "Close" THEN Step("break", transcript_now, Running)
    ELSE IF message.kind = "Error"
         THEN Step("return", transcript_now, Failure(Msg("Read error")))
    ELSE IF message.kind = "End" THEN Step("break", transcript_now, Running)
    ELSE IF message.kind = "Timeout"
         THEN Step("return", transcript_now,
                   Failure(Msg("Timed out waiting for response")))
    ELSE Step("continue", transcript_now, Running)

\* stt_ws_test.rs:303-344: the same turn under timeout_at(deadline, ..)
recognize_with_deadline(message, transcript_now) ==
    IF message.kind = "Text"
    THEN respond(message.data, transcript_now, "Recognition error")
    ELSE IF message.kind = "Binary"
         THEN LET parsed == parse_server_payload(message.data)
              IN  IF ~parsed.ok
                  THEN Step("return", transcript_now, Failure(parsed.err))
                  ELSE IF parsed.frame.some
                  THEN respond(parsed.frame.v, transcript_now, "Recognition error")
                  ELSE Step("continue", transcript_now, Running)
    ELSE IF message.kind = "Close" THEN Step("break", transcript_now, Running)
    ELSE IF message.kind = "Error"
         THEN Step("return", transcript_now, Failure(Msg("Read error")))
    ELSE IF message.kind = "End" THEN Step("break", transcript_now, Running)
    ELSE IF message.kind = "Timeout" THEN Step("break", transcript_now, Running)
    ELSE Step("continue", transcript_now, Running)

\* ------------------------------------------------------------------------
\* stt_transcribe (stt.rs:165-297)
\* ------------------------------------------------------------------------
synthesis ==
    << text, voice_type, voice, session_id, chunks, index, total_bytes, emitted >>

\* stt_transcribe is called with audio_bytes and mime_type
RecognitionInit ==
    /\ \/ config \in SttGoodConfigs /\ mime_type \in MimeTypes
                                    /\ audio_bytes \in AudioInputs
       \/ config \in SttBadConfigs /\ mime_type = MimeWebm
                                   /\ audio_bytes = << 1, 2, 3 >>
       \/ config = ConfigBoth /\ mime_type = MimeWebm
                               /\ audio_bytes = << 1, 2, 3 >>
    /\ audio_path = None
    /\ request = << >>
    /\ transcript = << >>
    /\ pc = "start"
    /\ resource_id = << >>
    /\ sent = << >>
    /\ result = Running
    /\ last = Item("Nothing", << >>)
    /\ nrecv = 0
    /\ NoSynthesis

SttInit == RecognitionInit /\ NoCodecCall

\* read.next().await yields m
Receives(m, replies) ==
    /\ m \in (IF last.kind = "End" \/ nrecv >= MaxInbound THEN {EndItem}
              ELSE replies)
    /\ last' = m
    /\ nrecv' = nrecv + 1

\* stt.rs:174-181
SttResourceId(c) ==
    IF c.stt.resource_id # << >> THEN c.stt.resource_id
    ELSE IF c.legacy_resource_id.some THEN c.legacy_resource_id.v
    ELSE << >>

\* stt.rs:169-232: configuration, credentials, resource id, audio format,
\* request, request headers
SttPrepare ==
    /\ pc = "start"
    /\ UNCHANGED << synthesis, codec, stream, config, sent, audio_bytes,
                    mime_type, audio_path, transcript >>
    /\ IF ~config.ok
       THEN /\ IF config.panics THEN pc' = "panicked" /\ UNCHANGED result
               ELSE Returns(Failure(config.err))
            /\ UNCHANGED << resource_id, request >>
       ELSE LET c == config.v
                rid == SttResourceId(c)
                fmt == parse_audio_format(mime_type)
            IN  IF c.app_id = << >> \/ c.access_token = << >>
                THEN /\ Returns(Failure(Msg("configure the Volcengine API first")))
                     /\ UNCHANGED << resource_id, request >>
                ELSE IF rid = << >>
                THEN /\ Returns(Failure(Msg("configure the STT resource id first")))
                     /\ resource_id' = rid
                     /\ UNCHANGED request
                ELSE IF ~fmt.ok
                THEN /\ Returns(Failure(fmt.err))
                     /\ resource_id' = rid
                     /\ UNCHANGED request
                ELSE /\ resource_id' = rid
                     /\ request' = SttRequest(UidDesktop, fmt.format, fmt.codec)
                     /\ IF ~ValidHeaderValue(c.app_id)
                        THEN Returns(Failure(Msg("Invalid X-Api-App-Key header")))
                        ELSE IF ~ValidHeaderValue(c.access_token)
                        THEN Returns(Failure(Msg("Invalid X-Api-Access-Key header")))
                        ELSE IF ~ValidHeaderValue(rid)
                        THEN Returns(Failure(Msg("Invalid X-Api-Resource-Id header")))
                        ELSE pc' = "connect" /\ UNCHANGED result

\* stt.rs:234-243: connect_async
SttConnect ==
    /\ pc = "connect"
    /\ UNCHANGED << synthesis, codec, stream, recognition, config, resource_id,
                    sent >>
    /\ \E connected \in BOOLEAN :
         IF connected
         THEN pc' = "send_request" /\ UNCHANGED result
         ELSE Returns(Failure(Msg("WebSocket connect failed")))

\* stt.rs:246-250
SttSendRequest ==
    /\ pc = "send_request"
    /\ UNCHANGED << synthesis, codec, stream, recognition, config, resource_id >>
    /\ \E delivered \in BOOLEAN :
         Send(build_full_client_request(request), delivered, "send_audio",
              "send request failed")

\* Faulty variant of SttSendAudio: the audio frame is not marked as the
\* last one.
SttSendAudio_not_last ==
    /\ pc = "send_audio"
    /\ UNCHANGED << synthesis, codec, stream, config, resource_id, audio_bytes,
                    mime_type, audio_path, request >>
    /\ transcript' = << >>
    /\ \E delivered \in BOOLEAN :
         Send(build_audio_only_request(audio_bytes, FALSE), delivered,
              "receive", "send audio data failed")

\* stt.rs:251-258
SttSendAudio ==
    /\ pc = "send_audio"
    /\ UNCHANGED << synthesis, codec, stream, config, resource_id, audio_bytes,
                    mime_type, audio_path, request >>
    /\ transcript' = << >>
    /\ \E delivered \in BOOLEAN :
         Send(build_audio_only_request(audio_bytes, TRUE), delivered,
              "receive", "send audio data failed")

\* stt.rs:260-296: one turn of the read loop; Ok(transcript) once it ends
SttReceive ==
    /\ pc = "receive"
    /\ UNCHANGED << synthesis, codec, config, resource_id, sent, audio_bytes,
                    mime_type, audio_path, request >>
    /\ \E m \in Replies :
         /\ Receives(m, Replies)
         /\ LET t == recognize(m, transcript)
            IN  /\ transcript' = t.transcript
                /\ IF t.ctl = "return" THEN Returns(t.res)
                   ELSE IF t.ctl = "break" THEN Returns(OkText(t.transcript))
                   ELSE UNCHANGED << pc, result >>

SttNext ==
    \/ SttPrepare
    \/ SttConnect
    \/ SttSendRequest
    \/ SttSendAudio
    \/ SttReceive

SttSpec == SttInit /\ [][SttNext]_vars

\* ------------------------------------------------------------------------
\* The test program of the recognition path (stt_ws_test.rs:192-353)
\* ------------------------------------------------------------------------
\* VolcengineConfig of the test program (stt_ws_test.rs:17-25)
TestConfig(app_id, access_token, the_resource_id) ==
    [app_id |-> app_id, access_token |-> access_token,
     resource_id |-> the_resource_id]

\* what read_volcengine_config returns (stt_ws_test.rs:75-87): an error
\* with its message, or the volcengine section of config.json
TestConfigError(m) ==
    [ok |-> FALSE, panics |-> FALSE, err |-> m,
     v |-> TestConfig(<< >>, << >>, << >>)]

\* no home directory; config.json absent or not readable; config.json not
\* JSON or its volcengine section lacking a field; no volcengine section
TestConfigErrors ==
    { TestConfigError(Msg("Cannot find home directory")),
      TestConfigError(Msg("Failed to read config")),
      TestConfigError(Msg("Failed to parse config")),
      TestConfigError(Msg("Missing volcengine config")) }

TestConfigs ==
    TestConfigErrors \cup
    { ConfigOk(TestConfig(AppId, Token, SttResource)),
      ConfigOk(TestConfig(AppIdLineFeed, Token, SttResource)),
      ConfigOk(TestConfig(AppId, TokenDel, SttResource)),
      ConfigOk(TestConfig(AppId, Token, ResourceCr)),
      ConfigOk(TestConfig(AppId, TokenTab, SttResource)),
      ConfigOk(TestConfig(<< >>, Token, SttResource)),
      ConfigOk(TestConfig(AppId, << >>, SttResource)),
      ConfigOk(TestConfig(AppId, Token, << >>)) }

\* "clips/a.b/hello.WAV"
PathWav == << 99, 108, 105, 112, 115, 47, 97, 46, 98, 47, 104, 101, 108, 108, 111,
    46, 87, 65, 86 >>
\* "clips/a.b/hello"
PathNoExtension == << 99, 108, 105, 112, 115, 47, 97, 46, 98, 47, 104, 101, 108, 108, 111 >>
\* "notes.txt"
PathTxt == << 110, 111, 116, 101, 115, 46, 116, 120, 116 >>

\* "a.\u00c9\u0181\u03a3" (capital e acute, capital b with hook, capital
\* sigma)
PathAccent == << 97, 46, 201, 385, 931 >>
\* "a.\ua7ce\u0295\u03a3" (the capital letter U+A7CE, the caseless letter
\* U+0295, capital sigma)
PathCaseless == << 97, 46, 42958, 661, 931 >>

\* env::args().nth(1)
AudioPaths ==
    { None, Some(PathWav), Some(PathNoExtension), Some(PathTxt),
      Some(PathAccent), Some(PathCaseless) }

SttTestInit ==
    /\ \/ config = ConfigOk(TestConfig(AppId, Token, SttResource))
          /\ audio_path \in AudioPaths
       \/ config \in TestConfigs /\ audio_path = Some(PathWav)
    /\ audio_bytes = << >>
    /\ mime_type = << >>
    /\ request = << >>
    /\ transcript = << >>
    /\ pc = "start"
    /\ resource_id = << >>
    /\ sent = << >>
    /\ result = Running
    /\ last = Item("Nothing", << >>)
    /\ nrecv = 0
    /\ NoSynthesis
    /\ NoCodecCall

\* stt_ws_test.rs:194-275: argument, audio file, audio format,
\* configuration, request, request headers (the VOLC_WS_* variables unset)
TestPrepare ==
    /\ pc = "start"
    /\ UNCHANGED << synthesis, codec, stream, config, sent, mime_type,
                    audio_path, transcript >>
    /\ IF ~audio_path.some
       THEN /\ Returns(Success)
            /\ UNCHANGED << resource_id, request, audio_bytes >>
       ELSE \E file \in [ok : {FALSE}] \cup [ok : {TRUE}, bytes : AudioInputs] :
            LET fmt == parse_audio_format_by_extension(audio_path.v)
                c == config.v
                Fails(m) == /\ Returns(Failure(m))
                            /\ UNCHANGED << resource_id, request >>
            IN  IF ~file.ok
                THEN /\ Fails(Msg("Failed to read audio file"))
                     /\ UNCHANGED audio_bytes
                ELSE /\ audio_bytes' = file.bytes
                     /\ IF ~fmt.ok THEN Fails(fmt.err)
                        ELSE IF ~config.ok THEN Fails(config.err)
                        ELSE IF c.app_id = << >> \/ c.access_token = << >>
                        THEN Fails(Msg("Missing appId or accessToken in config"))
                        ELSE IF c.resource_id = << >>
                        THEN Fails(Msg("Missing resourceId in config"))
                        ELSE /\ resource_id' = c.resource_id
                             /\ request' = SttRequest(UidTest, fmt.format, fmt.codec)
                             /\ IF ~ValidHeaderValue(c.app_id)
                                THEN Returns(Failure(Msg("Invalid X-Api-App-Key header")))
                                ELSE IF ~ValidHeaderValue(c.access_token)
                                THEN Returns(Failure(Msg("Invalid X-Api-Access-Key header")))
                                ELSE IF ~ValidHeaderValue(c.resource_id)
                                THEN Returns(Failure(Msg("Invalid X-Api-Resource-Id header")))
                                ELSE pc' = "connect" /\ UNCHANGED result

\* stt_ws_test.rs:277-289: connect_async
TestConnect ==
    /\ pc = "connect"
    /\ UNCHANGED << synthesis, codec, stream, recognition, config, resource_id,
                    sent >>
    /\ \E connected \in BOOLEAN :
         IF connected
         THEN pc' = "send_request" /\ UNCHANGED result
         ELSE Returns(Failure(Msg("WebSocket connect failed")))

\* stt_ws_test.rs:290-294
TestSendRequest ==
    /\ pc = "send_request"
    /\ UNCHANGED << synthesis, codec, stream, recognition, config, resource_id >>
    /\ \E delivered \in BOOLEAN :
         Send(build_full_client_request(request), delivered, "send_audio",
              "Failed to send request")

\* stt_ws_test.rs:295-302
TestSendAudio ==
    /\ pc = "send_audio"
    /\ UNCHANGED << synthesis, codec, stream, config, resource_id, audio_bytes,
                    mime_type, audio_path, request >>
    /\ transcript' = << >>
    /\ \E delivered \in BOOLEAN :
         Send(build_audio_only_request(audio_bytes, TRUE), delivered,
              "receive", "Failed to send audio data")

\* stt_ws_test.rs:303-352: one turn of the read loop; once it ends the
\* transcript is printed and main returns Ok(())
TestReceive ==
    /\ pc = "receive"
    /\ UNCHANGED << synthesis, codec, config, resource_id, sent, audio_bytes,
                    mime_type, audio_path, request >>
    /\ \E m \in TestReplies :
         /\ Receives(m, TestReplies)
         /\ LET t == recognize_with_deadline(m, transcript)
            IN  /\ transcript' = t.transcript
                /\ IF t.ctl = "return" THEN Returns(t.res)
                   ELSE IF t.ctl = "break" THEN Returns(Success)
                   ELSE UNCHANGED << pc, result >>

SttTestNext ==
    \/ TestPrepare
    \/ TestConnect
    \/ TestSendRequest
    \/ TestSendAudio
    \/ TestReceive

SttTestSpec == SttTestInit /\ [][SttTestNext]_vars

\* ------------------------------------------------------------------------
\* Properties of the recognition path
\* ------------------------------------------------------------------------
\* message m carries the reply text t: as a text message, or as the payload
\* of a complete full server response (message type 9, JSON, uncompressed)
CarriesReply(m, t) ==
    \/ m = Item("Text", t)
    \/ m = Item("Binary", << 17, 144, 16, 0 >> \o << 0, 0, 0, 1 >>
                          \o U32ToBeBytes(Len(Utf8(t))) \o Utf8(t))

\* this step reads one item from the stream
ReadsItem == pc = "receive" /\ nrecv' = nrecv + 1

\* "hi", "bad" and "late"
TextHi == << 104, 105 >>
TextBad == << 98, 97, 100 >>
TextLate == << 108, 97, 116, 101 >>

\* the two frames of a recognition run, from the wire layout
RequestFrame == << 17, 16, 16, 0 >> \o U32ToBeBytes(Len(request)) \o request
FinalAudioFrame ==
    << 17, 34, 0, 0 >> \o U32ToBeBytes(Len(audio_bytes)) \o audio_bytes

\* C11: on the recognition path, once reading has started the frames handed
\* to the socket are exactly two, the full client request with the JSON
\* configuration and then one audio frame flagged as the last one that
\* carries the whole audio buffer; both are sent before the first read and
\* no step of the read loop, and no step after the return, sends anything.
C11_OutboundSequence ==
    /\ [](pc = "receive" \/ nrecv > 0
            => /\ request # << >>
               /\ sent = << RequestFrame, FinalAudioFrame >>)
    /\ [][(pc \in {"receive", "done"}) => sent' = sent]_vars
    /\ [][nrecv' # nrecv => Len(sent) = 2]_vars

C11_Witness ==
    /\ pc = "done"
    /\ result = OkText(TextHi)
    /\ nrecv >= 2
    /\ audio_bytes = << 1, 2, 3 >>
    /\ sent[2] = << 17, 34, 0, 0, 0, 0, 0, 3, 1, 2, 3 >>
    /\ Len(sent) = 2

\* C12: a read of a frame whose result text is empty leaves a transcript
\* captured earlier as it is (the last non-empty result wins).
C12_EmptyResultKeepsTranscript ==
    [][(ReadsItem /\ transcript # << >> /\ CarriesReply(last', ReplyEmptyText))
         => transcript' = transcript]_vars

\* the replies with a non-zero status code, with their messages
FailedReplies ==
    { [reply |-> ReplyFailed, message |-> TextBad],
      [reply |-> ReplyFailedWithResult, message |-> TextLate] }

\* C13: on the recognition path a read of a frame (text message or decoded
\* binary payload) whose response has a non-zero status code ends the call
\* in that step with an error that carries the message of that response;
\* the transcript is not returned and nothing happens after the return.
C13_FailureCodeFatal ==
    /\ [][\A f \in FailedReplies :
            (ReadsItem /\ CarriesReply(last', f.reply))
              => /\ pc' = "done"
                 /\ result' = Failure(MsgWith("recognition failed", f.message))
                 /\ transcript' = transcript]_vars
    /\ [][pc = "done" => UNCHANGED vars]_vars
    /\ [](result.state = "err" => "text" \notin DOMAIN result)

C13_Witness ==
    /\ pc = "done"
    /\ transcript = TextHi
    /\ CarriesReply(last, ReplyFailed)
    /\ last.kind = "Binary"
    /\ result = Failure(MsgWith("recognition failed", TextBad))

\* C14: when the deadline passes while the read loop of the test program
\* waits for a frame, the loop ends and the program ends successfully with
\* the transcript captured so far; nothing is handed to the socket after the
\* last audio frame.
C14_DeadlineEndsQuietly ==
    /\ [][(ReadsItem /\ last' = TimeoutItem)
            => /\ pc' = "done"
               /\ result' = Success
               /\ transcript' = transcript
               /\ sent' = sent]_vars
    /\ [][(pc \in {"receive", "done"}) => sent' = sent]_vars
    /\ [](pc = "done" /\ last = TimeoutItem
            => sent[Len(sent)] = FinalAudioFrame)

C14_Witness ==
    /\ pc = "done"
    /\ last = TimeoutItem
    /\ result = Success
    /\ transcript = TextHi
    /\ Len(sent) = 2

\* the deadline may pass before anything was captured
C14_WitnessEmpty ==
    /\ pc = "done"
    /\ last = TimeoutItem
    /\ result = Success
    /\ transcript = << >>
    /\ nrecv = 1

\* ------------------------------------------------------------------------
\* The codec functions called on their own: one call of a decoder, or of the
\* request encoder, on a buffer
\* ------------------------------------------------------------------------
\* the longest payload of the buffers below, and by how much a declared
\* payload length overruns the payload of a cut frame
MaxPayload == 2
Overrun == 12

\* payloads: the prefixes of the text "{} ok"
PayloadText == << 123, 125, 32, 111, 107 >>
Payloads == { SubSeq(PayloadText, 1, n) : n \in 0..MaxPayload }

Prefixes(f) == { SubSeq(f, 1, n) : n \in 0..Len(f) }

\* header bytes: one or two header words, the message types full client
\* request (1), full server response (9) and error (15), with and without
\* the event flag, the serializations raw, JSON, 2 and 15, and compression
\* none, gzip and 15
Headers ==
    { << PackNibbles(1, words), PackNibbles(message_type, flags),
         PackNibbles(serialization, compression), 0 >>
        \o (IF words = 2 THEN << 0, 0, 0, 0 >> ELSE << >>) :
        words \in {1, 2}, message_type \in {1, 9, 15}, flags \in {0, 4},
        serialization \in {0, 1, 2, 15}, compression \in {0, 1, 15} }

\* simple-protocol frames: header, sequence, payload length, payload; the
\* declared length is the payload's, or overruns it
SimpleFrames ==
    { h \o << 0, 0, 0, 1 >> \o U32ToBeBytes(Len(p) + over) \o p :
        h \in Headers, p \in Payloads, over \in {0, Overrun} }

\* frames in the layout build_full_client_request writes: header, payload
\* length, payload
RequestLayoutFrames ==
    { << 17, 16, 16, 0 >> \o U32ToBeBytes(Len(p)) \o p : p \in Payloads }
      \cup { << 17, 16, 16, 0 >> \o << 0, 0, 0, 8 >>
               \o << 0, 0, 0, 0, 123, 125, 32, 32 >> }

\* session-protocol frames that declare a compression or a serialization
\* the protocol does not know: Frame50 with gzip, Audio352 with compression
\* 15, Frame150 with serialization 2
SessionFramesEncoded ==
    { << 17, 148, 17, 0,  0, 0, 0, 50,   0, 0, 0, 1, 99,  0, 0, 0, 2, 123, 125 >>,
      << 17, 148, 15, 0,  0, 0, 1, 96,   0, 0, 0, 1, 115, 0, 0, 0, 2, 1, 2 >>,
      << 17, 148, 32, 0,  0, 0, 0, 150,  0, 0, 0, 1, 115, 0, 0, 0, 2, 123, 125 >> }

\* a frame whose declared payload length is 2^32 - 1
HugeFrame == << 17, 144, 16, 0,  0, 0, 0, 1,  255, 255, 255, 255,  123, 125 >>

\* headers that declare no header word, three and fifteen header words,
\* on full server responses and error frames, with and without event flag
Zeros(n) == [i \in 1..n |-> 0]
EdgeHeaders ==
    { << PackNibbles(1, words), PackNibbles(message_type, flags), 16, 0 >>
        \o (IF words > 1 THEN Zeros(4 * words - 4) ELSE << >>) :
        words \in {0, 3, 15}, message_type \in {9, 15}, flags \in {0, 4} }

\* what follows them: an event or sequence number, an id and a payload; a
\* field that declares 2^32 - 1 bytes where an id length, an error code or
\* a payload length is read; a payload length of 2^32 - 1
EdgeTails ==
    { << 0, 0, 0, 50,  0, 0, 0, 1, 99,  0, 0, 0, 2, 123, 125 >>,
      << 0, 0, 0, 50,  255, 255, 255, 255,  1 >>,
      << 0, 0, 0, 1,  255, 255, 255, 255,  1, 2 >>,
      << 0, 0, 0, 0,  0, 0, 0, 1,  255, 255, 255, 255,  7 >> }

EdgeFrames == { h \o t : h \in EdgeHeaders, t \in EdgeTails }

\* Frame50 followed by two more bytes
TrailingFrame == Frame50 \o << 9, 9 >>

\* audio data: the payloads, and byte strings of 4, 5 and 8 bytes
Audios ==
    Payloads \cup { << 0, 0, 0, 0 >>, << 0, 0, 0, 1, 9 >>,
                    << 1, 2, 3, 4, 5, 6, 7, 8 >> }

\* the frames build_audio_only_request gives for them
AudioFrames ==
    { build_audio_only_request(a, is_last) : a \in Audios, is_last \in BOOLEAN }

\* a serialized request
RequestJson == SttRequest(UidDesktop, Webm, Opus)

\* the events and session ids given to build_full_client_frame: events 1,
\* 100, 200, 2^31 - 1 and -2; no id, the empty id, "ab" and "\u00e9b"
FrameEvents == { 1, 100, 200, 2147483647, -2 }
FrameSessionIds ==
    { None, Some(<< >>), Some(<< 97, 98 >>), Some(<< 233, 98 >>) }

\* the bytes of a session id: a &str is UTF-8
IdBytes(id) == IF id.some THEN Some(Utf8(id.v)) ELSE None

\* the frames build_full_client_frame gives for them
EventFrames ==
    { build_full_client_frame(event, IdBytes(id), p) :
        event \in FrameEvents, id \in FrameSessionIds, p \in Payloads }

Buffers ==
    UNION { Prefixes(f) : f \in SimpleFrames \cup EdgeFrames }
      \cup RequestLayoutFrames \cup SessionFramesEncoded \cup BinaryFrames
      \cup { HugeFrame, TrailingFrame, RequestJson } \cup Audios
      \cup AudioFrames \cup Prefixes(Frame50) \cup EventFrames

Call(op, data) == [op |-> op, data |-> data]
Returned_by(op, value) == [op |-> op, value |-> value]

CodecInit ==
    /\ call \in { Call("none", b) : b \in Buffers }
    /\ ret = NoReturn
    /\ pc = "start"
    /\ config = ConfigNotFound
    /\ resource_id = << >>
    /\ sent = << >>
    /\ result = Running
    /\ last = Item("Nothing", << >>)
    /\ nrecv = 0
    /\ NoSynthesis
    /\ NoRecognition

\* parse_server_payload(&data) (stt.rs:89-133)
CallParseServerPayload ==
    /\ pc = "start"
    /\ call' = Call("parse_server_payload", call.data)
    /\ ret' = Returned_by("parse_server_payload", parse_server_payload(call.data))
    /\ pc' = "done"
    /\ UNCHANGED << synthesis, recognition, stream, config, resource_id, sent,
                    result >>

\* ParsedFrame of the standalone binary (tts_ws_test.rs:82-89): it has the
\* id as well
ParsedFrameWithId(message_type, flags, serialization, event, id, payload) ==
    [message_type |-> message_type, flags |-> flags,
     serialization |-> serialization, event |-> event, id |-> id,
     payload |-> payload]

\* tts_ws_test.rs:214-253: the optional id, which is skipped only if it
\* fits, then the length-prefixed payload
ParseBodyWsTest(data, message_type, flags, serialization, event, offset0) ==
    LET hasId == offset0 + 4 <= Len(data)
        id_len == IF hasId THEN U32FromBeBytes(data, offset0) ELSE 0
        offset1 == IF hasId THEN offset0 + 4 ELSE offset0
        idFits == hasId /\ offset1 + id_len <= Len(data) /\ id_len > 0
        id == IF idFits
              THEN Some(from_utf8_lossy(Slice(data, offset1, offset1 + id_len)))
              ELSE None
        offset2 == IF idFits THEN offset1 + id_len ELSE offset1
        hasLen == offset2 + 4 <= Len(data)
        payload_len == IF hasLen THEN U32FromBeBytes(data, offset2) ELSE 0
        offset3 == offset2 + 4
        payload == IF ~hasLen THEN << >>
                   ELSE IF offset3 + payload_len <= Len(data)
                        THEN Slice(data, offset3, offset3 + payload_len)
                   ELSE IF offset3 < Len(data)
                        THEN Slice(data, offset3, Len(data))
                   ELSE << >>
    IN  Ok(ParsedFrameWithId(message_type, flags, serialization, event, id,
                             payload))

\* parse_frame of the standalone binary (tts_ws_test.rs:169-254)
parse_frame_ws_test(data) ==
    IF Len(data) < 4 THEN Err("Frame too short")
    ELSE
    LET header_size == LowNibble(At(data, 0)) * 4
        message_type == HighNibble(At(data, 1))
        flags == LowNibble(At(data, 1))
        serialization == HighNibble(At(data, 2))
        withEvent == HasFlag(flags, FLAG_WITH_EVENT)
        offset == IF withEvent THEN header_size + 4 ELSE header_size
    IN  IF header_size > Len(data) THEN Err("Invalid header size")
        ELSE IF withEvent /\ header_size + 4 > Len(data)
             THEN Err("Missing event field")
        ELSE
        LET event == IF withEvent
                     THEN Some(I32FromBeBytes(data, header_size))
                     ELSE None
        IN  IF message_type = MSG_TYPE_ERROR
            THEN IF offset + 4 > Len(data)
                 THEN Err("Missing error code")
                 ELSE Ok(ParsedFrameWithId(message_type, flags, serialization,
                                           event, None,
                                           Slice(data, offset + 4, Len(data))))
            ELSE ParseBodyWsTest(data, message_type, flags, serialization,
                                 event, offset)

\* parse_frame(&data) of the standalone binary (tts_ws_test.rs:169-254)
CallParseFrameWsTest ==
    /\ pc = "start"
    /\ call' = Call("tts_ws_test::parse_frame", call.data)
    /\ ret' = Returned_by("tts_ws_test::parse_frame",
                          parse_frame_ws_test(call.data))
    /\ pc' = "done"
    /\ UNCHANGED << synthesis, recognition, stream, config, resource_id, sent,
                    result >>

\* parse_frame(&data) (tts.rs:134-217)
CallParseFrame ==
    /\ pc = "start"
    /\ call' = Call("parse_frame", call.data)
    /\ ret' = Returned_by("parse_frame", parse_frame(call.data))
    /\ pc' = "done"
    /\ UNCHANGED << synthesis, recognition, stream, config, resource_id, sent,
                    result >>

\* build_full_client_request (stt.rs:61-73) on the bytes of a serialized
\* request
CallBuildFullClientRequest ==
    /\ pc = "start"
    /\ call.data \in Payloads \cup { RequestJson }
    /\ call' = Call("build_full_client_request", call.data)
    /\ ret' = Returned_by("build_full_client_request",
                     build_full_client_request(call.data))
    /\ pc' = "done"
    /\ UNCHANGED << synthesis, recognition, stream, config, resource_id, sent,
                    result >>

\* build_audio_only_request(&audio_data, is_last) (stt.rs:75-87)
CallBuildAudioOnlyRequest ==
    /\ pc = "start"
    /\ call.data \in Audios
    /\ \E is_last \in BOOLEAN :
         /\ call' = [op |-> "build_audio_only_request", data |-> call.data,
                     is_last |-> is_last]
         /\ ret' = Returned_by("build_audio_only_request",
                               build_audio_only_request(call.data, is_last))
    /\ pc' = "done"
    /\ UNCHANGED << synthesis, recognition, stream, config, resource_id, sent,
                    result >>

\* build_full_client_frame(event, session_id, &payload) (tts.rs:115-132);
\* the session id is a str, written as its UTF-8 bytes
CallBuildFullClientFrame ==
    /\ pc = "start"
    /\ call.data \in Payloads
    /\ \E event \in FrameEvents, id \in FrameSessionIds :
         /\ call' = [op |-> "build_full_client_frame", data |-> call.data,
                     event |-> event, session_id |-> id]
         /\ ret' = Returned_by("build_full_client_frame",
                     build_full_client_frame(
                         event,
                         IF id.some THEN Some(Utf8(id.v)) ELSE None,
                         call.data))
    /\ pc' = "done"
    /\ UNCHANGED << synthesis, recognition, stream, config, resource_id, sent,
                    result >>

CodecNext ==
    \/ CallParseServerPayload
    \/ CallParseFrame
    \/ CallParseFrameWsTest
    \/ CallBuildFullClientRequest
    \/ CallBuildAudioOnlyRequest
    \/ CallBuildFullClientFrame

CodecSpec == CodecInit /\ [][CodecNext]_vars

\* ------------------------------------------------------------------------
\* Properties of the decoders
\* ------------------------------------------------------------------------
\* what a buffer declares, read from the wire layout of the simple protocol
DeclaredHeader(data) == (data[1] % 16) * 4
DeclaredCompression(data) == data[3] % 16
DeclaredSerialization(data) == data[3] \div 16
DeclaredType(data) == data[2] \div 16
HasLengthField(data) == Len(data) >= DeclaredHeader(data) + 8
DeclaredPayload(data) ==
    LET o == DeclaredHeader(data) + 4
    IN  IF data[o + 1] >= 64 THEN UsizeCap
        ELSE data[o + 1] * 16777216 + data[o + 2] * 65536 + data[o + 3] * 256
               + data[o + 4]
SupportedEncoding(data) ==
    DeclaredCompression(data) = 0 /\ DeclaredSerialization(data) \in {0, 1}

\* a complete frame of the simple protocol: at least one header word, the
\* sequence and length fields, and the whole declared payload
WellFormed(data) ==
    /\ Len(data) >= 4
    /\ DeclaredHeader(data) >= 4
    /\ HasLengthField(data)
    /\ Len(data) >= DeclaredHeader(data) + 8 + DeclaredPayload(data)

\* the payload of a well-formed frame
FramePayload(data) ==
    SubSeq(data, DeclaredHeader(data) + 9,
           DeclaredHeader(data) + 8 + DeclaredPayload(data))

\* parse_server_payload was called on call.data and returned ret.value
Parsed == call.op = "parse_server_payload"
\* parse_frame was called on call.data and returned ret.value
ParsedAsFrame == call.op = "parse_frame"

\* C15 as stated: parse_server_payload returns Ok(None) for every buffer
\* shorter than 12 bytes or shorter than its declared header length plus its
\* declared payload length.
C15_ShortBufferIsNone ==
    (Parsed /\ (\/ Len(call.data) < 12
                \/ /\ HasLengthField(call.data)
                   /\ Len(call.data) < DeclaredHeader(call.data)
                                         + DeclaredPayload(call.data)))
      => ret.value = Ok(None)

\* C15, amended: parse_server_payload returns Ok(None) for every buffer
\* shorter than 12 bytes or too short to hold the length field, and for every
\* buffer shorter than its declared frame whose compression is 0 and whose
\* serialization is 0 or 1; a buffer of 12 bytes or more that holds the
\* length field and declares another compression or serialization is an
\* error, cut short or not.
C15_ShortBufferIsNoneIfSupported ==
    Parsed =>
      LET data == call.data
      IN  /\ (Len(data) < 12 \/ ~HasLengthField(data)) => ret.value = Ok(None)
          /\ (/\ Len(data) >= 12
              /\ HasLengthField(data)
              /\ SupportedEncoding(data)
              /\ Len(data) < DeclaredHeader(data) + 8 + DeclaredPayload(data))
               => ret.value = Ok(None)
          /\ (Len(data) >= 12 /\ HasLengthField(data) /\ ~SupportedEncoding(data))
               => ~ret.value.ok

\* a JSON response cut inside its payload: None
C15_Witness ==
    /\ Parsed
    /\ Len(call.data) = 14
    /\ SubSeq(call.data, 1, 8) = << 17, 144, 16, 0,  0, 0, 0, 1 >>
    /\ DeclaredPayload(call.data) > 2
    /\ ret.value = Ok(None)

\* a gzip response cut inside its payload: an error
C15_WitnessUnsupported ==
    /\ Parsed
    /\ Len(call.data) = 14
    /\ SubSeq(call.data, 1, 8) = << 17, 144, 17, 0,  0, 0, 0, 1 >>
    /\ DeclaredPayload(call.data) > 2
    /\ ret.value = Err(Msg("Unsupported compression in server response"))

\* C16: for every well-formed frame of the simple protocol whose compression
\* nibble is not 0, or whose serialization nibble is neither 0 nor 1,
\* parse_server_payload returns an error, never a text.
C16_UnsupportedEncodingIsError ==
    (Parsed /\ WellFormed(call.data) /\ ~SupportedEncoding(call.data))
      => /\ ~ret.value.ok
         /\ ret.value.err
              = IF DeclaredCompression(call.data) # 0
                THEN Msg("Unsupported compression in server response")
                ELSE Msg("Unsupported serialization in server response")

C16_Witness ==
    /\ Parsed
    /\ call.data = << 17, 144, 17, 0,  0, 0, 0, 1,  0, 0, 0, 2,  123, 125 >>
    /\ ret.value = Err(Msg("Unsupported compression in server response"))

\* C17: parse_frame never returns a parsed frame for a buffer whose
\* compression nibble is not 0 or whose serialization nibble is neither 0
\* nor 1.
C17_SessionEncodingIsError ==
    (ParsedAsFrame /\ Len(call.data) >= 4 /\ ~SupportedEncoding(call.data))
      => ~ret.value.ok

\* C18: for every well-formed frame whose message type is 15,
\* parse_server_payload returns the error that carries the payload text,
\* whatever the serialization nibble is.
C18_ErrorTypeCarriesPayload ==
    (Parsed /\ WellFormed(call.data) /\ DeclaredType(call.data) = 15
            /\ DeclaredCompression(call.data) = 0)
      => ret.value
           = Err(MsgWith("Server error response", FramePayload(call.data)))

\* the buffer is header 11 10 10 00, then the length of p, then p
RequestLayout(data, p) ==
    data = << 17, 16, 16, 0 >> \o U32ToBeBytes(Len(p)) \o p

\* C19: parse_server_payload applied to the header 11 10 10 00 followed by
\* the big-endian length of the payload and the payload returns
\* Ok(Some(the payload as text)); in particular 11 10 10 00, 00 00 00 02,
\* "{}" decodes to Ok(Some("{}")).
C19_DecodesRequestLayout ==
    \A p \in Payloads :
      (Parsed /\ RequestLayout(call.data, p)) => ret.value = Ok(Some(p))

\* C20: parse_frame applied to a buffer shorter than its declared header
\* length, or that ends right after the header although the event flag is
\* set, reports an outcome that is not a decode error.
C20_IncompleteIsNotError ==
    (ParsedAsFrame /\ Len(call.data) >= 4
       /\ (\/ Len(call.data) < DeclaredHeader(call.data)
           \/ /\ Len(call.data) = DeclaredHeader(call.data)
              /\ (call.data[2] \div 4) % 2 = 1))
      => ret.value.ok

\* ------------------------------------------------------------------------
\* The indices of the buffer the decoders read
\* ------------------------------------------------------------------------
\* data[from..to] reads the indices from..to-1 and needs from <= to <= len;
\* a range that does not is recorded by the index len, which no buffer has
SliceReads(data, from, to) ==
    IF from <= to /\ to <= Len(data) THEN from..(to - 1) ELSE {Len(data)}

\* tts.rs:178-208: the indices ParseBody reads, from offset0 on
ParseBodyReads(data, offset0) ==
    LET hasId == offset0 + 4 <= Len(data)
        id_len == IF hasId THEN U32FromBeBytes(data, offset0) ELSE 0
        offset1 == IF hasId THEN offset0 + 4 ELSE offset0
        idBad == hasId /\ id_len > 0 /\ offset1 + id_len > Len(data)
        offset2 == IF hasId /\ id_len > 0 THEN offset1 + id_len ELSE offset1
        idReads == IF hasId THEN offset0..(offset0 + 3) ELSE {}
    IN  IF idBad THEN idReads
        ELSE IF offset2 + 4 > Len(data) THEN idReads
        ELSE
        LET payload_len == U32FromBeBytes(data, offset2)
            offset3 == offset2 + 4
        IN  idReads \cup (offset2..(offset2 + 3))
              \cup (IF offset3 + payload_len <= Len(data)
                    THEN SliceReads(data, offset3, offset3 + payload_len)
                    ELSE IF offset3 < Len(data)
                         THEN SliceReads(data, offset3, Len(data))
                    ELSE {})

\* Faulty variant of parse_frame_reads: the event field is read without the
\* length test of tts.rs:152-154.
parse_frame_reads_unchecked_event(data) ==
    IF Len(data) < 4 THEN {}
    ELSE
    LET header_size == LowNibble(At(data, 0)) * 4
        message_type == HighNibble(At(data, 1))
        withEvent == HasFlag(LowNibble(At(data, 1)), FLAG_WITH_EVENT)
        offset == IF withEvent THEN header_size + 4 ELSE header_size
        head == IF withEvent THEN {0, 1, 2} \cup (header_size..(header_size + 3))
                ELSE {0, 1, 2}
    IN  IF header_size > Len(data) THEN {0}
        ELSE IF message_type = MSG_TYPE_ERROR
             THEN IF offset + 4 > Len(data) THEN head
                  ELSE head \cup SliceReads(data, offset + 4, Len(data))
        ELSE head \cup ParseBodyReads(data, offset)

\* parse_frame (tts.rs:134-217): the set of indices of data the call reads
parse_frame_reads(data) ==
    IF Len(data) < 4 THEN {}
    ELSE
    LET header_size == LowNibble(At(data, 0)) * 4
        message_type == HighNibble(At(data, 1))
        withEvent == HasFlag(LowNibble(At(data, 1)), FLAG_WITH_EVENT)
        offset == IF withEvent THEN header_size + 4 ELSE header_size
        head == IF withEvent THEN {0, 1, 2} \cup (header_size..(header_size + 3))
                ELSE {0, 1, 2}
    IN  IF header_size > Len(data) THEN {0}
        ELSE IF withEvent /\ header_size + 4 > Len(data) THEN {0, 1, 2}
        ELSE IF message_type = MSG_TYPE_ERROR
             THEN IF offset + 4 > Len(data) THEN head
                  ELSE head \cup SliceReads(data, offset + 4, Len(data))
        ELSE head \cup ParseBodyReads(data, offset)

\* parse_server_payload (stt.rs:89-133): the set of indices of data the call
\* reads
parse_server_payload_reads(data) ==
    IF Len(data) < 12 THEN {}
    ELSE
    LET header_size == LowNibble(At(data, 0)) * 4
        serialization == HighNibble(At(data, 2))
        compression == LowNibble(At(data, 2))
        payload_size_offset == header_size + 4
        payload_offset == header_size + 8
    IN  IF Len(data) < header_size + 8 THEN {0}
        ELSE IF compression # 0 \/ (serialization # 1 /\ serialization # 0)
             THEN {0, 1, 2}
        ELSE IF Len(data) < payload_size_offset + 4 THEN {0, 1, 2}
        ELSE
        LET payload_size == U32FromBeBytes(data, payload_size_offset)
            size_reads == payload_size_offset..(payload_size_offset + 3)
        IN  IF Len(data) < payload_offset + payload_size
            THEN {0, 1, 2} \cup size_reads
            ELSE {0, 1, 2} \cup size_reads
                   \cup SliceReads(data, payload_offset,
                                   payload_offset + payload_size)

\* the result of a decoder is one of the values of its result type
IsFrameResult(r) ==
    IF r.ok
    THEN DOMAIN r = {"ok", "frame"}
           /\ DOMAIN r.frame
                = {"message_type", "flags", "serialization", "event", "payload"}
    ELSE DOMAIN r = {"ok", "err"}
IsPayloadResult(r) ==
    IF r.ok
    THEN DOMAIN r = {"ok", "frame"} /\ (r.frame.some => DOMAIN r.frame = {"some", "v"})
    ELSE DOMAIN r = {"ok", "err"}

\* C21: for every buffer, whatever header length (0 to 15 words) and
\* whatever lengths (up to 2^32 - 1) it declares, parse_frame and
\* parse_server_payload read only indices inside the buffer and return a
\* value: a parsed frame, a text, None or an error.
C21_ReadsInsideBuffer ==
    /\ ParsedAsFrame
         => /\ parse_frame_reads(call.data) \subseteq 0..(Len(call.data) - 1)
            /\ IsFrameResult(ret.value)
    /\ Parsed
         => /\ parse_server_payload_reads(call.data)
                 \subseteq 0..(Len(call.data) - 1)
            /\ IsPayloadResult(ret.value)

\* fifteen header words declared, a buffer shorter than that
C21_Witness ==
    /\ ParsedAsFrame
    /\ Len(call.data) = 40
    /\ call.data[1] = 31
    /\ ret.value = Err("Invalid header size")

\* no header word declared, an id length of 2^32 - 1
C21_WitnessNoHeader ==
    /\ ParsedAsFrame
    /\ call.data = << 16, 148, 16, 0,  0, 0, 0, 50,  255, 255, 255, 255,  1 >>
    /\ ret.value = Err("Invalid id length")

\* a payload length of 2^32 - 1 in the simple protocol
C21_WitnessHuge ==
    /\ Parsed
    /\ call.data = HugeFrame
    /\ parse_server_payload_reads(call.data) = {0, 1, 2, 8, 9, 10, 11}
    /\ ret.value = Ok(None)

\* ------------------------------------------------------------------------
\* The text chunker called on its own: one call of split_tts_text, or of
\* its body with other chunk limits
\* ------------------------------------------------------------------------
\* the longest of the short texts, and the largest of the small limits
MaxTextLen == 5
MaxLimit == 3

\* the characters of the short texts: a letter, a comma, a space, a newline
Alphabet == {97, 44, 32, 10}
ShortTexts == UNION { [1..n -> Alphabet] : n \in 0..MaxTextLen }

\* "a,b,c,d", and "。a 。" (full-width full stops)
TextScenario == << 97, 44, 98, 44, 99, 44, 100 >>
TextFullWidth == << 12290, 97, 32, 12290 >>

Repeat(c, n) == [i \in 1..n |-> c]

\* texts longer than TTS_CHUNK_MAX, or cut at a boundary: 70 letters; 59
\* letters, a space and 5 letters; 11 letters, a newline and 3 letters; 60
\* spaces around "a, b"
LongTexts ==
    { Repeat(97, 70),
      Repeat(97, 59) \o << 32 >> \o Repeat(98, 5),
      Repeat(97, 11) \o << 10 >> \o Repeat(98, 3),
      Repeat(32, 30) \o << 97, 44, 32, 98 >> \o Repeat(32, 30),
      TextTwoChunks }

SmallLimits ==
    { [max_len |-> a, min_len |-> b] : a \in 1..MaxLimit, b \in 1..MaxLimit }
      \ { l \in [max_len : 1..MaxLimit, min_len : 1..MaxLimit] :
            l.max_len < l.min_len }

SplitInput(t, max_len, min_len) ==
    [text |-> t, max_len |-> max_len, min_len |-> min_len]

ChunkerInit ==
    /\ call \in { Call("none", SplitInput(t, l.max_len, l.min_len)) :
                    t \in ShortTexts \cup { TextScenario, TextFullWidth },
                    l \in SmallLimits }
                \cup { Call("none", SplitInput(t, TTS_CHUNK_MAX, TTS_CHUNK_MIN)) :
                         t \in LongTexts \cup { TextScenario, TextFullWidth } }
    /\ ret = NoReturn
    /\ pc = "start"
    /\ config = ConfigNotFound
    /\ resource_id = << >>
    /\ sent = << >>
    /\ result = Running
    /\ last = Item("Nothing", << >>)
    /\ nrecv = 0
    /\ NoSynthesis
    /\ NoRecognition

\* split_tts_text(&text) (tts.rs:226-263)
CallSplitTtsText ==
    /\ pc = "start"
    /\ call.data.max_len = TTS_CHUNK_MAX
    /\ call.data.min_len = TTS_CHUNK_MIN
    /\ call' = Call("split_tts_text", call.data)
    /\ ret' = Returned_by("split_tts_text", split_tts_text(call.data.text))
    /\ pc' = "done"
    /\ UNCHANGED << synthesis, recognition, stream, config, resource_id, sent,
                    result >>

\* the body of split_tts_text with the chunk limits of the input in the
\* place of TTS_CHUNK_MAX and TTS_CHUNK_MIN
CallSplitText ==
    /\ pc = "start"
    /\ call' = Call("split", call.data)
    /\ ret' = Returned_by("split", SplitText(call.data.text, call.data.max_len,
                                             call.data.min_len))
    /\ pc' = "done"
    /\ UNCHANGED << synthesis, recognition, stream, config, resource_id, sent,
                    result >>

ChunkerNext ==
    \/ CallSplitTtsText
    \/ CallSplitText

ChunkerSpec == ChunkerInit /\ [][ChunkerNext]_vars

\* ------------------------------------------------------------------------
\* Properties of the text chunker
\* ------------------------------------------------------------------------
\* the chunker was called on call.data and returned the chunks ret.value
Chunked == call.op \in {"split", "split_tts_text"}

IsBlank(s) == \A i \in 1..Len(s) : IsWhitespace(s[i])

\* C22: for every text and every max >= min > 0, every chunk the chunker
\* returns is non-empty, begins and ends with a character that is not
\* whitespace, and has at most max characters; the result is empty when the
\* text is empty or whitespace only, and non-empty otherwise.
C22_ChunksBounded ==
    Chunked =>
      /\ \A k \in 1..Len(ret.value) :
           LET chunk == ret.value[k]
           IN  /\ chunk # << >>
               /\ ~IsWhitespace(chunk[1])
               /\ ~IsWhitespace(chunk[Len(chunk)])
               /\ Len(chunk) <= call.data.max_len
      /\ (ret.value = << >>) <=> IsBlank(call.data.text)

\* split_tts_text cuts 70 letters into 60 and 10
C22_Witness ==
    /\ call.op = "split_tts_text"
    /\ Len(call.data.text) = 70
    /\ Len(ret.value) = 2
    /\ Len(ret.value[1]) = TTS_CHUNK_MAX
    /\ Len(ret.value[2]) = 10

\* a whitespace-only text gives no chunk
C22_WitnessBlank ==
    /\ call.op = "split"
    /\ call.data.text = << 32, 10, 32 >>
    /\ ret.value = << >>

\* s without its leading whitespace
SkipBlank(s) ==
    IF IsBlank(s) THEN << >>
    ELSE LET first == CHOOSE i \in 1..Len(s) :
                        /\ ~IsWhitespace(s[i])
                        /\ \A k \in 1..(i - 1) : IsWhitespace(s[k])
         IN  SubSeq(s, first, Len(s))

\* s is the chunks in order, with nothing but whitespace before, between and
\* after them
RECURSIVE Reassembles(_, _)
Reassembles(s, parts) ==
    LET t == SkipBlank(s)
    IN  IF parts = << >> THEN t = << >>
        ELSE LET c == Head(parts)
             IN  /\ Len(c) <= Len(t)
                 /\ SubSeq(t, 1, Len(c)) = c
                 /\ Reassembles(SubSeq(t, Len(c) + 1, Len(t)), Tail(parts))

RECURSIVE Concat(_)
Concat(parts) ==
    IF parts = << >> THEN << >> ELSE Head(parts) \o Concat(Tail(parts))

NotBlank(ch) == ~IsWhitespace(ch)

\* C23: for every text, the chunks in order reproduce the text except for
\* whitespace: the characters that are not whitespace are the same, in the
\* same order, and the text is the chunks with nothing but whitespace before
\* the first, between two of them, and after the last.
C23_ChunksReassemble ==
    Chunked =>
      /\ SelectSeq(Concat(ret.value), NotBlank)
           = SelectSeq(call.data.text, NotBlank)
      /\ Reassembles(call.data.text, ret.value)

\* "a, a" with limits 2 and 2 is cut after the comma; the space is dropped
C23_Witness ==
    /\ call.op = "split"
    /\ call.data = SplitInput(<< 97, 44, 32, 97 >>, 2, 2)
    /\ ret.value = << << 97, 44 >>, << 97 >> >>

\* where the first split of s falls: the first position at which the count
\* has reached max_len, or holds a boundary character with the count at
\* least min_len; 0 when there is none
FirstSplit(s, max_len, min_len) ==
    LET at == { k \in 1..Len(s) :
                  k >= max_len \/ (is_boundary_char(s[k]) /\ k >= min_len) }
    IN  IF at = {} THEN 0 ELSE CHOOSE k \in at : \A j \in at : k <= j

\* the pieces of s between its splits, each ending with the character that
\* triggers the split; the text after the last split is the last piece
RECURSIVE Pieces(_, _, _)
Pieces(s, max_len, min_len) ==
    LET k == FirstSplit(s, max_len, min_len)
    IN  IF s = << >> THEN << >>
        ELSE IF k = 0 THEN << s >>
        ELSE << SubSeq(s, 1, k) >>
               \o Pieces(SubSeq(s, k + 1, Len(s)), max_len, min_len)

\* each piece trimmed, the pieces that are whitespace only left out
RECURSIVE TrimmedPieces(_)
TrimmedPieces(pieces) ==
    IF pieces = << >> THEN << >>
    ELSE (IF IsBlank(Head(pieces)) THEN << >>
          ELSE << SkipBlank(TrimEnd(Head(pieces))) >>)
           \o TrimmedPieces(Tail(pieces))

\* C24 as stated: the chunks are the pieces of the trimmed text between its
\* splits, so that the character that triggers a split is the last
\* character of its chunk and the text after the last split is the last
\* chunk.
C24_ChunksArePieces ==
    Chunked =>
      ret.value = Pieces(Trim(call.data.text), call.data.max_len,
                         call.data.min_len)

\* C24, amended: the chunker splits the trimmed text at the positions where
\* the count since the last split has reached max_len, or where the
\* character is a boundary character and the count is at least min_len; each
\* piece ends with the character that triggers the split, the text after the
\* last split is the last piece, and the chunks are the pieces trimmed of
\* surrounding whitespace, a piece of whitespace only giving no chunk.  A
\* triggering character is the last character of its chunk unless it is
\* whitespace (a newline, or whitespace at which the count reaches max_len).
C24_ChunksAreTrimmedPieces ==
    Chunked =>
      ret.value = TrimmedPieces(Pieces(Trim(call.data.text), call.data.max_len,
                                       call.data.min_len))

\* split("a,b,c,d", 3, 1) = ["a,", "b,", "c,", "d"]
C24_Witness ==
    /\ call.op = "split"
    /\ call.data = SplitInput(TextScenario, 3, 1)
    /\ ret.value = << << 97, 44 >>, << 98, 44 >>, << 99, 44 >>, << 100 >> >>

\* a newline triggers a split and is not part of the chunk
C24_WitnessNewline ==
    /\ call.op = "split"
    /\ call.data = SplitInput(<< 97, 10, 97 >>, 3, 1)
    /\ ret.value = << << 97 >>, << 97 >> >>


\* ------------------------------------------------------------------------
\* The frames the encoders build
\* ------------------------------------------------------------------------
\* build_full_client_request was called on call.data and returned ret.value
BuiltRequest == call.op = "build_full_client_request"
\* build_audio_only_request was called on call.data with call.is_last
BuiltAudio == call.op = "build_audio_only_request"
\* build_full_client_frame was called on call.data with call.event and
\* call.session_id
BuiltEventFrame == call.op = "build_full_client_frame"

\* the unsigned number in the four bytes of data from position i (1-based)
FieldAt(data, i) ==
    data[i] * 16777216 + data[i + 1] * 65536 + data[i + 2] * 256 + data[i + 3]
\* the same four bytes read as a signed number
SignedFieldAt(data, i) ==
    (IF data[i] >= 128 THEN data[i] - 256 ELSE data[i]) * 16777216
      + data[i + 1] * 65536 + data[i + 2] * 256 + data[i + 3]

\* the fields of the header of the simple protocol, the length field after
\* the header, and data ending with the payload p
SimpleFrameOf(data, words, message_type, flags, serialization, p) ==
    /\ Len(data) = 8 + Len(p)
    /\ data[1] \div 16 = 1
    /\ data[1] % 16 = words
    /\ data[2] \div 16 = message_type
    /\ data[2] % 16 = flags
    /\ data[3] \div 16 = serialization
    /\ data[3] % 16 = 0
    /\ data[4] = 0
    /\ FieldAt(data, 5) = Len(p)
    /\ SubSeq(data, 9, Len(data)) = p

\* C25 as stated: build_full_client_request gives, for every JSON payload p,
\* a frame with version 1, header_words 4, message type 1, flags 0,
\* serialization 1, compression 0, then the 4-byte big-endian length of p,
\* then p, and nothing after.
C25_RequestDeclaresFourWords ==
    BuiltRequest => SimpleFrameOf(ret.value, 4, 1, 0, 1, call.data)

\* C25, amended: build_full_client_request gives, for every JSON payload p,
\* a frame with version 1, header_words 1 (a header of 4 bytes), message
\* type 1, flags 0, serialization 1, compression 0, then the 4-byte
\* big-endian length of p, then p, and nothing after: 8 + |p| bytes.
C25_RequestDeclaresOneWord ==
    BuiltRequest => SimpleFrameOf(ret.value, 1, 1, 0, 1, call.data)

\* the serialized request is framed: 0x11 first, 8 bytes before the payload
C25_Witness ==
    /\ BuiltRequest
    /\ call.data = RequestJson
    /\ Len(call.data) > 2
    /\ ret.value[1] = 17
    /\ Len(ret.value) = 8 + Len(call.data)

\* C26: build_audio_only_request gives, for every audio byte sequence a and
\* flag is_last, a frame with version 1, one header word, message type 2,
\* serialization 0, compression 0, flags 2 if is_last and 0 otherwise, then
\* the 4-byte big-endian length of a, then exactly the bytes of a.
C26_AudioFrameLayout ==
    BuiltAudio =>
      SimpleFrameOf(ret.value, 1, 2, IF call.is_last THEN 2 ELSE 0, 0,
                    call.data)

\* the last frame of 8 audio bytes
C26_Witness ==
    /\ BuiltAudio
    /\ call.is_last
    /\ call.data = << 1, 2, 3, 4, 5, 6, 7, 8 >>
    /\ ret.value = << 17, 34, 0, 0,  0, 0, 0, 8,  1, 2, 3, 4, 5, 6, 7, 8 >>

\* a frame that is not the last, of no audio at all
C26_WitnessNotLast ==
    /\ BuiltAudio
    /\ ~call.is_last
    /\ call.data = << >>
    /\ ret.value = << 17, 32, 0, 0,  0, 0, 0, 0 >>

\* C27: build_full_client_frame gives, for every event e, optional session
\* id s and payload p, the bytes 11 14 10 00, then e as a 4-byte big-endian
\* signed integer, then, only if s is present, the 4-byte big-endian byte
\* length of s and its UTF-8 bytes, then the 4-byte big-endian length of p
\* and p; 12 + |p| bytes without a session id and 16 + |s| + |p| with one.
C27_EventFrameLayout ==
    BuiltEventFrame =>
      LET data == ret.value
          s == IF call.session_id.some THEN Utf8(call.session_id.v) ELSE << >>
          at == IF call.session_id.some THEN 13 + Len(s) ELSE 9
      IN  /\ SubSeq(data, 1, 4) = << 17, 20, 16, 0 >>
          /\ SignedFieldAt(data, 5) = call.event
          /\ call.session_id.some =>
               /\ FieldAt(data, 9) = Len(s)
               /\ SubSeq(data, 13, 12 + Len(s)) = s
          /\ FieldAt(data, at) = Len(call.data)
          /\ SubSeq(data, at + 4, Len(data)) = call.data
          /\ Len(data) = IF call.session_id.some
                         THEN 16 + Len(s) + Len(call.data)
                         ELSE 12 + Len(call.data)

\* a negative event, a session id of two characters and three bytes
C27_Witness ==
    /\ BuiltEventFrame
    /\ call.event = -2
    /\ call.session_id = Some(<< 233, 98 >>)
    /\ call.data = << 123, 125 >>
    /\ ret.value = << 17, 20, 16, 0,  255, 255, 255, 254,
                      0, 0, 0, 3,  195, 169, 98,  0, 0, 0, 2,  123, 125 >>

\* no session id: the payload length follows the event
C27_WitnessNoId ==
    /\ BuiltEventFrame
    /\ call.event = 100
    /\ call.session_id = None
    /\ call.data = << 123, 125 >>
    /\ ret.value = << 17, 20, 16, 0,  0, 0, 0, 100,  0, 0, 0, 2,  123, 125 >>


\* C28: for every audio byte sequence a and every is_last,
\* parse_server_payload applied to build_audio_only_request(a, is_last)
\* recovers a payload of exactly the |a| bytes of a.
C28_AudioFrameRoundTrips ==
    \A a \in Audios, is_last \in BOOLEAN :
      (Parsed /\ call.data = build_audio_only_request(a, is_last))
        => ret.value = Ok(Some(from_utf8_lossy(a)))

\* ------------------------------------------------------------------------
\* The payload parse_frame returns
\* ------------------------------------------------------------------------
\* the event flag of the second byte
DeclaredEvent(data) == ((data[2] % 16) \div 4) % 2 = 1
\* where the header and the optional event field end (0-based offset)
AfterEvent(data) ==
    DeclaredHeader(data) + (IF DeclaredEvent(data) THEN 4 ELSE 0)
\* the buffer holds its header and, if the flag is set, the event field
HoldsEvent(data) == Len(data) >= 4 /\ Len(data) >= AfterEvent(data)
\* the bytes of data from the 0-based offset to the end
RestFrom(data, offset) == SubSeq(data, offset + 1, Len(data))
\* a 4-byte length field at the 0-based offset, as a usize
LengthAt(data, offset) ==
    IF data[offset + 1] >= 64 THEN UsizeCap ELSE FieldAt(data, offset + 1)

\* parse_frame was called on an error frame that holds its event field
ParsedErrorFrame ==
    /\ ParsedAsFrame
    /\ HoldsEvent(call.data)
    /\ DeclaredType(call.data) = 15

\* C29 as stated: for a frame of message type 0xF, parse_frame returns a
\* parsed frame whose payload is everything in the buffer after the event
\* field (after the header when the event flag is clear).
C29_ErrorPayloadFollowsEvent ==
    ParsedErrorFrame =>
      /\ ret.value.ok
      /\ ret.value.frame.payload = RestFrom(call.data, AfterEvent(call.data))

\* C29, amended: for a frame of message type 0xF, parse_frame skips a
\* 4-byte error code after the optional event field: with fewer than 4
\* bytes there it fails with "Missing error code", otherwise it returns a
\* parsed frame whose payload is everything after the error code, reading
\* neither a session id nor a payload length.
C29_ErrorPayloadFollowsCode ==
    ParsedErrorFrame =>
      LET data == call.data
          code == AfterEvent(data)
      IN  IF code + 4 > Len(data)
          THEN ret.value = Err("Missing error code")
          ELSE /\ ret.value.ok
               /\ ret.value.frame.message_type = 15
               /\ ret.value.frame.event.some = DeclaredEvent(data)
               /\ ret.value.frame.payload = RestFrom(data, code + 4)

\* an error frame with an event: the payload starts after the error code,
\* and is not read as an id length or a payload length
C29_Witness ==
    /\ ParsedAsFrame
    /\ call.data = << 17, 244, 16, 0,  0, 0, 0, 50,  2, 174, 165, 64,
                      120, 255, 121 >>
    /\ ret.value.ok
    /\ ret.value.frame.event = Some(50)
    /\ ret.value.frame.payload = << 120, 255, 121 >>

\* an error frame cut inside its error code
C29_WitnessShort ==
    /\ ParsedAsFrame
    /\ call.data = << 17, 240, 16, 0,  2, 174 >>
    /\ ret.value = Err("Missing error code")

\* parse_frame was called on a frame that is not an error frame, holds its
\* event field and its id, and has a payload length field at call.data's
\* 0-based offset LengthOffset
LengthOffset ==
    LET data == call.data
        id == AfterEvent(data)
    IN  IF id + 4 > Len(data) THEN id
        ELSE id + 4 + LengthAt(data, id)
ReadsPayloadLength ==
    /\ ParsedAsFrame
    /\ HoldsEvent(call.data)
    /\ DeclaredType(call.data) # 15
    /\ AfterEvent(call.data) + 4 <= Len(call.data)
    /\ LengthOffset + 4 <= Len(call.data)

\* C30: when parse_frame reads a payload length field, it returns a parsed
\* frame whose payload starts right after the field and has min(declared
\* length, bytes remaining) bytes: the rest of the buffer if the declared
\* length exceeds what remains, and exactly the declared bytes, ignoring
\* what follows them, if it fits.
C30_PayloadCappedAtEnd ==
    ReadsPayloadLength =>
      LET data == call.data
          start == LengthOffset + 4
          declared == LengthAt(data, LengthOffset)
          remaining == Len(data) - start
          n == IF declared <= remaining THEN declared ELSE remaining
      IN  /\ ret.value.ok
          /\ Len(ret.value.frame.payload) = n
          /\ ret.value.frame.payload = SubSeq(data, start + 1, start + n)

\* two bytes declared, one present: the payload is that byte
C30_Witness ==
    /\ ReadsPayloadLength
    /\ Len(call.data) = 26
    /\ SubSeq(call.data, 13, 26)
         = << 0, 0, 0, 50,  0, 0, 0, 1, 99,  0, 0, 0, 2,  123 >>
    /\ ret.value.ok
    /\ ret.value.frame.payload = << 123 >>

\* two bytes declared, four present: the payload is the first two
C30_WitnessTrailing ==
    /\ ReadsPayloadLength
    /\ call.data = TrailingFrame
    /\ ret.value.ok
    /\ ret.value.frame.payload = << 123, 125 >>

\* 2^32 - 255 bytes declared, one present
C30_WitnessHuge ==
    /\ ReadsPayloadLength
    /\ LengthAt(call.data, LengthOffset) = UsizeCap
    /\ ret.value.ok
    /\ ret.value.frame.payload = << 2 >>


\* a field of the frame in call.data is missing or cut by the end of the
\* buffer: the header, the event field, the id length, the id, or the
\* payload length
HeaderCut == Len(call.data) < 4 \/ DeclaredHeader(call.data) > Len(call.data)
EventCut ==
    /\ ~HeaderCut
    /\ DeclaredEvent(call.data)
    /\ DeclaredHeader(call.data) + 4 > Len(call.data)
IdLengthCut ==
    /\ HoldsEvent(call.data)
    /\ DeclaredType(call.data) # 15
    /\ AfterEvent(call.data) + 4 > Len(call.data)
IdCut ==
    /\ HoldsEvent(call.data)
    /\ DeclaredType(call.data) # 15
    /\ AfterEvent(call.data) + 4 <= Len(call.data)
    /\ LengthOffset > Len(call.data)
PayloadLengthCut ==
    /\ HoldsEvent(call.data)
    /\ DeclaredType(call.data) # 15
    /\ AfterEvent(call.data) + 4 <= Len(call.data)
    /\ LengthOffset <= Len(call.data)
    /\ LengthOffset + 4 > Len(call.data)

\* C31: parse_frame returns an error, never a parsed frame, for a buffer
\* whose header is longer than the buffer, whose event field, id length
\* field or payload length field is missing or cut, or whose id overruns
\* the buffer.
C31_CutFieldIsError ==
    (ParsedAsFrame
       /\ (HeaderCut \/ EventCut \/ IdLengthCut \/ IdCut \/ PayloadLengthCut))
      => ~ret.value.ok

\* the cases of C31 in which parse_frame does return an error
C31_CutHeaderEventOrIdIsError ==
    (ParsedAsFrame /\ (HeaderCut \/ EventCut \/ IdCut)) => ~ret.value.ok


\* ------------------------------------------------------------------------
\* One call of either command: tts_speak_stream (tts.rs:376-623) or
\* stt_transcribe (stt.rs:165-297); call.op is the command invoked
\* ------------------------------------------------------------------------
Synthesizing == call.op = "tts_speak_stream"
Recognizing == call.op = "stt_transcribe"

CommandInit ==
    /\ ret = NoReturn
    /\ \/ SynthesisInit /\ call = Call("tts_speak_stream", << >>)
       \/ RecognitionInit /\ call = Call("stt_transcribe", << >>)

\* the actions of Next while synthesizing, those of SttNext while recognizing
CommandNext ==
    \/ Synthesizing /\ Prepare
    \/ Synthesizing /\ Connect
    \/ Synthesizing /\ SendStartConnection
    \/ Synthesizing /\ AwaitConnectionStarted
    \/ Synthesizing /\ SendStartSession
    \/ Synthesizing /\ AwaitSessionStarted
    \/ Synthesizing /\ SplitChunks
    \/ Synthesizing /\ SendTaskRequest
    \/ Synthesizing /\ SendFinishSession
    \/ Synthesizing /\ CollectAudio
    \/ Synthesizing /\ SendFinishConnection
    \/ Synthesizing /\ AwaitConnectionFinished
    \/ Synthesizing /\ Finish
    \/ Recognizing /\ SttPrepare
    \/ Recognizing /\ SttConnect
    \/ Recognizing /\ SttSendRequest
    \/ Recognizing /\ SttSendAudio
    \/ Recognizing /\ SttReceive

CommandSpec == CommandInit /\ [][CommandNext]_vars


\* the resource id of the path of the call, and the legacy shared one
PathResourceId ==
    IF Synthesizing THEN config.v.tts.resource_id ELSE config.v.stt.resource_id
SharedResourceId ==
    IF config.v.legacy_resource_id.some THEN config.v.legacy_resource_id.v
    ELSE << >>
ChosenResourceId ==
    IF PathResourceId # << >> THEN PathResourceId ELSE SharedResourceId
\* the application id, the access token or the chosen resource id is empty
MissingCredentials ==
    \/ config.v.app_id = << >>
    \/ config.v.access_token = << >>
    \/ ChosenResourceId = << >>
\* the call is past its preparation: it connects, or uses the connection
Connecting == pc \notin {"start", "done", "panicked"}

\* C32: on both paths the resource id the connection is requested with is
\* the path's own resource id when that is non-empty and the legacy
\* resource id otherwise; with an empty application id, access token or
\* resulting resource id the call neither connects nor sends a frame, and
\* returns an error.
C32_ResourceIdAndCredentials ==
    /\ Connecting
         => /\ config.ok
            /\ ~MissingCredentials
            /\ resource_id = ChosenResourceId
    /\ (config.ok /\ MissingCredentials)
         => /\ ~Connecting
            /\ sent = << >>
            /\ nrecv = 0
            /\ pc = "done" => result.state = "err"
    /\ (pc = "done" /\ result.state = "err" /\ sent = << >> /\ config.ok
          /\ result.message.text \in
               { "configure the Volcengine API first",
                 "configure the TTS resource id first",
                 "configure the STT resource id first" })
         => MissingCredentials

\* synthesis connects with the legacy resource id, its own being empty
C32_Witness ==
    /\ Synthesizing
    /\ pc = "send_start_connection"
    /\ config.v.tts.resource_id = << >>
    /\ resource_id = LegacyResource

\* recognition connects with its own resource id, not the legacy one
C32_WitnessOwn ==
    /\ Recognizing
    /\ pc = "send_request"
    /\ config.v.legacy_resource_id = Some(LegacyResource)
    /\ resource_id = << 115, 116, 116 >>

\* recognition fails on an empty legacy resource id before it connects
C32_WitnessEmpty ==
    /\ Recognizing
    /\ pc = "done"
    /\ config.v.app_id # << >> /\ config.v.access_token # << >>
    /\ ChosenResourceId = << >>
    /\ result = Failure(Msg("configure the STT resource id first"))
    /\ sent = << >>


\* item m fails a wait: the end of the stream, a Close frame, a receive
\* error, a text message, a binary message that does not decode, or an
\* error frame
FailsWait(m) ==
    \/ m.kind \in {"End", "Close", "Error", "Text"}
    \/ m.kind = "Binary" /\ ~parse_frame(m.data).ok
    \/ IsErrorType(m)

\* C33: once the collection loop has ended normally, nothing fails the
\* call: the call stays in its closing part with no result yet, or returns
\* success with tts-stream-finished carrying the collected total; an item
\* that fails the wait for event 52 just ends the wait, and the send of
\* FinishConnection moves on whether it is delivered or not.
C33_ClosingFailureNotEscalated ==
    [][ /\ Closing
          => /\ total_bytes' = total_bytes
             /\ \/ Closing' /\ result' = Running /\ emitted' = emitted
                \/ /\ pc' = "done"
                   /\ result' = Success
                   /\ emitted' =
                        Append(emitted, Emit("tts-stream-finished", total_bytes))
        /\ (pc = "wait_connection_finished" /\ ReadStep /\ FailsWait(last'))
          => pc' = "finish"
        /\ pc = "send_finish_connection" => pc' = "wait_connection_finished"
        /\ pc = "finish" => pc' = "done" ]_vars

\* the call returned success although an error frame was read while
\* awaiting event 52
C33_Witness ==
    /\ pc = "done"
    /\ result = Success
    /\ IsErrorType(last)
    /\ FrameEvent(sent[Len(sent)]) = EVENT_FINISH_CONNECTION
    /\ FinishedCount = 1

\* the same after a receive error
C33_WitnessReceiveError ==
    /\ pc = "done"
    /\ result = Success
    /\ last.kind = "Error"
    /\ FinishedCount = 1


\* C34: in every phase of the session, the wait for event 52 included,
\* reading a frame whose message_type is 0xF ends the call with an error
\* that carries the text of the frame.
C34_ErrorFrameAlwaysFatal ==
    [][ (ReadStep /\ IsErrorType(last'))
          => /\ pc' = "done"
             /\ result'.state = "err"
             /\ Decodes(last') =>
                  result'.message =
                    MsgWith("TTS service error",
                            from_utf8_lossy(parse_frame(last'.data).frame.payload))
      ]_vars


\* the decoder of the path returns an error for the binary message m
DecodeFails(m) ==
    /\ m.kind = "Binary"
    /\ IF Synthesizing THEN ~parse_frame(m.data).ok
       ELSE ~parse_server_payload(m.data).ok

\* the call has a connection and is not yet in its closing part
InFlight == pc \notin {"start", "connect", "done", "panicked"} /\ ~Closing

\* the step hands a frame to the socket
SendStep == sent' # sent

\* how many of the frames sent so far carry event e
SentCount(e) == Cardinality({ i \in 1..Len(sent) : FrameEvent(sent[i]) = e })

\* C35: before the closing handshake a failed send, a failed receive or a
\* decode error ends the call with an error in that step, and a returned
\* call reads and sends nothing more; the connection is opened at most
\* once, every send appends one frame and moves on (to the next phase, the
\* next chunk, or the error return), recognition sends at most its two
\* frames and synthesis each of the events 1, 100, 102 and 2 at most once
\* and at most one TaskRequest per chunk.
C35_FailureFatalNoRetry ==
    [][ /\ (InFlight /\ ReadStep /\ (last'.kind = "Error" \/ DecodeFails(last')))
          => /\ pc' = "done"
             /\ result'.state = "err"
             /\ sent' = sent
        /\ (InFlight /\ SendStep)
          => /\ Len(sent') = Len(sent) + 1
             /\ SubSeq(sent', 1, Len(sent)) = sent
             /\ nrecv' = nrecv
             /\ \/ pc' = "done" /\ result'.state = "err"
                \/ pc' # pc /\ pc' # "done" /\ result' = Running
                \/ pc' = pc /\ index' = index + 1 /\ result' = Running
        /\ (pc' = "connect" \/ pc = "connect")
             => pc = "start" \/ pc' \in {"done", "send_start_connection", "send_request"}
        /\ pc' = "connect" => pc = "start"
        /\ Returned
        /\ Recognizing => Len(sent') <= 2
        /\ Synthesizing
             => /\ \A e \in { EVENT_START_CONNECTION, EVENT_START_SESSION,
                              EVENT_FINISH_SESSION, EVENT_FINISH_CONNECTION } :
                     SentCount(e)' <= 1
                /\ SentCount(EVENT_TASK_REQUEST)' <= Len(chunks') ]_vars

\* synthesis returned on the failed send of StartSession: two frames were
\* handed to the socket, one item was read
C35_Witness ==
    /\ Synthesizing
    /\ pc = "done"
    /\ result = Failure(Msg("send StartSession failed"))
    /\ Len(sent) = 2
    /\ nrecv = 1

\* recognition returned on a frame its decoder rejects
C35_WitnessDecode ==
    /\ Recognizing
    /\ pc = "done"
    /\ DecodeFails(last)
    /\ result.state = "err"
    /\ Len(sent) = 2

\* synthesis returned on a receive error in the collection loop
C35_WitnessReceive ==
    /\ Synthesizing
    /\ pc = "done"
    /\ last.kind = "Error"
    /\ result = Failure(Msg("receive failed"))
    /\ SentCount(EVENT_FINISH_SESSION) = 1
    /\ SentCount(EVENT_FINISH_CONNECTION) = 0


\* ------------------------------------------------------------------------
\* Termination of the recognition exchange.  read.next().await completes
\* when the peer sends a message, closes or fails; a peer that stays silent
\* and keeps the connection open never completes it.  Pending is that
\* read: nothing is yielded any more.
\* ------------------------------------------------------------------------
Pending == Item("Pending", << >>)

\* the peer has gone silent for good: the read of stt.rs:260 pends
SttPeerSilent ==
    /\ pc = "receive"
    /\ last # Pending
    /\ last' = Pending
    /\ UNCHANGED << synthesis, recognition, codec, config, resource_id, sent,
                    result, pc, nrecv >>

\* the peer sends, closes or fails: one turn of the read loop
SttPeerActs == last # Pending /\ SttReceive

SttLiveNext ==
    \/ SttPrepare
    \/ SttConnect
    \/ SttSendRequest
    \/ SttSendAudio
    \/ SttPeerActs
    \/ SttPeerSilent

\* the task runs whenever it can: every step of the command that is
\* enabled is eventually taken; whether the peer goes silent is its choice
SttLiveSpec ==
    /\ SttInit
    /\ [][SttLiveNext]_vars
    /\ WF_vars(SttPrepare)
    /\ WF_vars(SttConnect)
    /\ WF_vars(SttSendRequest)
    /\ WF_vars(SttSendAudio)
    /\ WF_vars(SttPeerActs)

\* C36: every recognition exchange eventually terminates: once the two
\* frames are sent and the read loop is entered, the call eventually
\* returns, even if the peer stays silent and keeps the connection open.
C36_ExchangeTerminates == (pc = "receive") ~> (pc = "done")


\* the standalone binary's parse_frame was called on call.data
ParsedByWsTest == call.op = "tts_ws_test::parse_frame"

\* C37: for every byte sequence the two copies of parse_frame either both
\* return an error, or both return a parsed frame with the same
\* message_type, flags, serialization, event and payload.
C37_DecodersAgree ==
    ParsedByWsTest =>
      LET handler == parse_frame(call.data)
          binary == ret.value
      IN  /\ handler.ok = binary.ok
          /\ handler.ok =>
               /\ handler.frame.message_type = binary.frame.message_type
               /\ handler.frame.flags = binary.frame.flags
               /\ handler.frame.serialization = binary.frame.serialization
               /\ handler.frame.event = binary.frame.event
               /\ handler.frame.payload = binary.frame.payload

\* the buffers on which the two copies differ: those whose id overruns
C37_DecodersAgreeUnlessIdCut ==
    (ParsedByWsTest /\ ~IdCut) => C37_DecodersAgree


\* ------------------------------------------------------------------------
\* parse_frame on the frames build_full_client_frame builds
\* ------------------------------------------------------------------------
\* call.data is the frame built from event e, session id s and payload p
IsBuiltFrame(e, s, p) == call.data = build_full_client_frame(e, IdBytes(s), p)

\* the session ids of the model that are not empty
NonEmptyIds == { s \in FrameSessionIds : s.some /\ s.v # << >> }

\* C38: for every event e, non-empty session id s and payload p,
\* parse_frame(build_full_client_frame(e, Some(s), p)) is a parsed frame
\* with message_type 1, flags 4, serialization 1, event e and payload p.
C38_RoundTripWithId ==
    \A e \in FrameEvents, s \in NonEmptyIds, p \in Payloads :
      (ParsedAsFrame /\ IsBuiltFrame(e, s, p))
        => ret.value = Ok(ParsedFrame(1, 4, 1, Some(e), p))

\* the frame of event -2 with the id of two characters and payload "{}"
C38_Witness ==
    /\ ParsedAsFrame
    /\ call.data = << 17, 20, 16, 0,  255, 255, 255, 254,
                      0, 0, 0, 3,  195, 169, 98,  0, 0, 0, 2,  123, 125 >>
    /\ IsBuiltFrame(-2, Some(<< 233, 98 >>), << 123, 125 >>)
    /\ ret.value.ok
    /\ ret.value.frame.event = Some(-2)
    /\ ret.value.frame.payload = << 123, 125 >>

\* C39: for every event e and payload p,
\* parse_frame(build_full_client_frame(e, None, p)) is a parsed frame with
\* event e and payload p.
C39_RoundTripWithoutId ==
    \A e \in FrameEvents, p \in Payloads :
      (ParsedAsFrame /\ IsBuiltFrame(e, None, p))
        => /\ ret.value.ok
           /\ ret.value.frame.event = Some(e)
           /\ ret.value.frame.payload = p

\* what parse_frame returns for a frame built without a session id: the
\* event, and an empty payload
C39_PayloadLost ==
    \A e \in FrameEvents, p \in Payloads :
      (ParsedAsFrame /\ IsBuiltFrame(e, None, p))
        => ret.value = Ok(ParsedFrame(1, 4, 1, Some(e), << >>))


\* the text of the call is empty or whitespace only
BlankText == IsBlank(text)

EmptyTextError == Failure(Msg("text to synthesize is empty"))

\* a TaskRequest was sent before each FinishSession
TaskBeforeFinish ==
    \A j \in 1..Len(sent) :
      FrameEvent(sent[j]) = EVENT_FINISH_SESSION
        => \E i \in 1..(j - 1) : FrameEvent(sent[i]) = EVENT_TASK_REQUEST

\* C40: with an empty or whitespace-only text no TaskRequest (event 200)
\* and no FinishSession (event 102) is ever sent and the call does not
\* succeed; the step that splits the text returns the empty-text error and
\* sends nothing; the empty-text error is returned only for such a text,
\* after StartConnection and StartSession alone; and in every run a
\* FinishSession is preceded by a TaskRequest.
C40_EmptyTextSendsNoTask ==
    [][ /\ BlankText
          => /\ EVENT_TASK_REQUEST \notin SentEvents'
             /\ EVENT_FINISH_SESSION \notin SentEvents'
             /\ result' # Success
             /\ pc = "split"
                  => /\ pc' = "done"
                     /\ result' = EmptyTextError
                     /\ sent' = sent
                     /\ emitted' = emitted
        /\ result' = EmptyTextError
          => /\ BlankText
             /\ Len(sent') = 2
             /\ FrameEvent(sent'[1]) = EVENT_START_CONNECTION
             /\ FrameEvent(sent'[2]) = EVENT_START_SESSION
        /\ (~BlankText /\ pc = "split") => pc' = "send_task"
        /\ TaskBeforeFinish' ]_vars

\* the call returned the empty-text error for the text " \n"
C40_Witness ==
    /\ pc = "done"
    /\ text = << 32, 10 >>
    /\ result = EmptyTextError
    /\ Len(sent) = 2
    /\ chunks = << >>

\* FinishSession was sent, after the TaskRequest of the text "Hi"
C40_WitnessFinishSession ==
    /\ text = << 72, 105 >>
    /\ Len(sent) = 4
    /\ FrameEvent(sent[3]) = EVENT_TASK_REQUEST
    /\ FrameEvent(sent[4]) = EVENT_FINISH_SESSION

=============================================================================
